---- MODULE Spec2Model ----
(***************************************************************************)
(* Model of the transcript processing pipeline of narrows-workers          *)
(* (packages/functions/src/process-transcript): the chapter planner        *)
(* (identify-chapters.ts), the chunker and the ingestion loop              *)
(* (ingest-to-graphiti.ts) and the handler that sequences them             *)
(* (handler.ts).                                                           *)
(*                                                                         *)
(* Times are seconds.  The source computes with IEEE doubles; the model    *)
(* uses integers and draws episode durations from the multiples of 10, on  *)
(* which duration * 0.1 and duration * 0.9 are whole numbers.  The strings *)
(* start_time / end_time of a transcript segment are modelled by the       *)
(* numbers parseFloat yields for them.                                     *)
(***************************************************************************)
EXTENDS Integers, Sequences, FiniteSets, TLC

VARIABLES
    pc,          \* position of the modelled function or handler
    segments,    \* the transcript: results.audio_segments
    response,    \* what the chapter generation call yielded
    chapters,    \* the value returned by identifyChapters
    data,        \* chunkData's argument
    remaining,   \* chunkData's local: the text not yet chunked
    chunks,      \* chunkData's local and result
    base,        \* where remaining starts in data (0-based; bookkeeping)
    spans,       \* for each chunk, the part <<from, to>> of data it holds
    cuts,        \* the break points taken, as positions in data
    inv,         \* the handler invocations: each one's event and locals
    log,         \* the requests issued to the external services, in order
    budget,      \* what the environment may still do in this run
    speakerData, \* the value returned by identifySpeakers
    allSegments, \* the value returned by identifySegments
    targets,     \* the segment targets identifySegments passed to its calls
    blocks       \* the value returned by chunkBySpeaker

chapterVars == <<segments, response, chapters>>
chunkVars == <<data, remaining, chunks, base, spans, cuts>>
handlerVars == <<inv, log, budget>>
stageVars == <<speakerData, allSegments, targets, blocks>>
vars == <<pc, chapterVars, chunkVars, handlerVars, stageVars>>

-----------------------------------------------------------------------------
(* Bounds of the model *)

\* proposed chapter times are GridStep * k for k in 0..MaxTick
GridStep == 5
MaxTick == 5
\* a proposal holds at most MaxChapters chapters
MaxChapters == 3
\* episode durations of the repair runs are 10 * k for k in 1..MaxDurTens
MaxDurTens == 2
\* episode durations of the fallback runs are 10 * k for k in 1..MaxLongDurTens
MaxLongDurTens == 70
\* the texts handed to chunkData have at most MaxTextLen characters
MaxTextLen == 10
\* an event carries at most MaxRecords records
MaxRecords == 1
\* at most MaxFaults calls of a handler run fail or find nothing
MaxFaults == 1
\* the segment generation calls of a handler run return at most MaxSegments
\* segments in all
MaxSegments == 2

-----------------------------------------------------------------------------
(* Helpers *)

Min(a, b) == IF a <= b THEN a ELSE b
Max(a, b) == IF a >= b THEN a ELSE b

Range(s) == {s[i] : i \in 1..Len(s)}

SeqsUpTo(S, n) == UNION {[1..k -> S] : k \in 0..n}

RECURSIVE MaxOfSet(_)
MaxOfSet(S) ==
    IF S = {} THEN 0
    ELSE LET x == CHOOSE y \in S : TRUE
             r == S \ {x}
         IN IF r = {} THEN x ELSE Max(x, MaxOfSet(r))

-----------------------------------------------------------------------------
(* types.ts *)

ChapterTypes == {"introduction", "credits", "promotion", "section", "other"}

-----------------------------------------------------------------------------
(* identify-chapters.ts *)

\* chapters shorter than this are filtered out by validateAndFixChapters
MIN_CHAPTER_SEC == 10
\* the longest default introduction and closing
DEFAULT_EDGE_SEC == 60

\* Math.max(...segments.map((s) => parseFloat(s.end_time)))
episodeDuration(segs) == MaxOfSet({segs[i].end_time : i \in 1..Len(segs)})

\* createDefaultChapters with the main chapter starting at the 60 second cap
\* instead of at introEnd
createDefaultChaptersFixedIntro(duration) ==
    LET introEnd == Min(DEFAULT_EDGE_SEC, duration \div 10)
        outroStart == Max(duration - DEFAULT_EDGE_SEC, (duration * 9) \div 10)
    IN << [id |-> 1, type |-> "introduction",
           episodeStartSec |-> 0, episodeEndSec |-> introEnd],
          [id |-> 2, type |-> "section",
           episodeStartSec |-> DEFAULT_EDGE_SEC, episodeEndSec |-> outroStart],
          [id |-> 3, type |-> "credits",
           episodeStartSec |-> outroStart, episodeEndSec |-> duration] >>

\* The ids stand for the fresh uuidv4() values: distinct within one list.
createDefaultChapters(duration) ==
    LET introEnd == Min(DEFAULT_EDGE_SEC, duration \div 10)
        outroStart == Max(duration - DEFAULT_EDGE_SEC, (duration * 9) \div 10)
    IN << [id |-> 1, type |-> "introduction",
           episodeStartSec |-> 0, episodeEndSec |-> introEnd],
          [id |-> 2, type |-> "section",
           episodeStartSec |-> introEnd, episodeEndSec |-> outroStart],
          [id |-> 3, type |-> "credits",
           episodeStartSec |-> outroStart, episodeEndSec |-> duration] >>

\* One step of a stable insertion: c goes after every element whose start is
\* not greater (the comparator is a.episodeStartSec - b.episodeStartSec and
\* Array.prototype.sort is stable).
RECURSIVE InsertByStart(_, _)
InsertByStart(c, sorted) ==
    IF sorted = <<>> THEN <<c>>
    ELSE IF c.episodeStartSec < Head(sorted).episodeStartSec
         THEN <<c>> \o sorted
         ELSE <<Head(sorted)>> \o InsertByStart(c, Tail(sorted))

RECURSIVE SortByStart(_)
SortByStart(chs) ==
    IF chs = <<>> THEN <<>>
    ELSE InsertByStart(chs[Len(chs)], SortByStart(SubSeq(chs, 1, Len(chs) - 1)))

\* if (chapters[0].episodeStartSec > 0) chapters[0].episodeStartSec = 0
FixFirstStart(chs) ==
    IF chs[1].episodeStartSec > 0
    THEN [chs EXCEPT ![1].episodeStartSec = 0]
    ELSE chs

\* if (chapters[last].episodeEndSec < duration) chapters[last].episodeEndSec = duration
FixLastEnd(chs, duration) ==
    IF chs[Len(chs)].episodeEndSec < duration
    THEN [chs EXCEPT ![Len(chs)].episodeEndSec = duration]
    ELSE chs

\* for i in 1..length-1: chapters[i].episodeStartSec = chapters[i-1].episodeEndSec
\* (the loop writes starts only, so chapters[i-1].episodeEndSec is the value
\* the list held before the loop)
CloseGaps(chs) ==
    [i \in 1..Len(chs) |->
        IF i = 1 THEN chs[i]
        ELSE [chs[i] EXCEPT !.episodeStartSec = chs[i - 1].episodeEndSec]]

LongEnough(ch) == ch.episodeEndSec - ch.episodeStartSec >= MIN_CHAPTER_SEC

validateAndFixChapters(chs, duration) ==
    IF Len(chs) = 0 THEN createDefaultChapters(duration)
    ELSE SelectSeq(CloseGaps(FixLastEnd(FixFirstStart(SortByStart(chs)), duration)),
                   LongEnough)

\* result.chapters.map(...): the proposal as Chapter objects with fresh ids
ToChapters(proposed) ==
    [i \in 1..Len(proposed) |->
        [id |-> i, type |-> proposed[i].type,
         episodeStartSec |-> proposed[i].start_sec,
         episodeEndSec |-> proposed[i].end_sec]]

\* The outcomes of the generation call: it throws ("error": a failure or a
\* timeout), it yields no content ("empty"), content JSON.parse rejects
\* ("unparsable"), JSON without a chapters array ("malformed": .map throws
\* inside the try), or a chapter list ("chapters").
FailureKinds == {"error", "empty", "unparsable", "malformed"}

identifyChapters(segs, resp) ==
    IF Len(segs) = 0 THEN <<>>
    ELSE IF resp.kind \in FailureKinds
         THEN createDefaultChapters(episodeDuration(segs))
         ELSE validateAndFixChapters(ToChapters(resp.chapters), episodeDuration(segs))

-----------------------------------------------------------------------------
(* ingest-to-graphiti.ts: chunkData.  A text is a sequence of characters;  *)
(* positions are 0-based as in the source.                                 *)

\* const MAX_DATA_CHARS = 5000, scaled down: the model's texts are short
MAX_DATA_CHARS == 4

\* what String.prototype.trim removes
Whitespace == {" ", "\n"}

\* the characters of the model's texts: a letter, the period and the plain
\* space, the three that lastIndexOf and trim tell apart
Alphabet == {"a", ".", " "}

\* s.slice(from, to) and s.slice(from) for 0 <= from
Slice(s, from, to) == SubSeq(s, from + 1, Min(to, Len(s)))
SliceFrom(s, from) == SubSeq(s, from + 1, Len(s))

\* the number of whitespace characters at the start / at the end of s
RECURSIVE LeadingSpace(_)
LeadingSpace(s) ==
    IF s = <<>> \/ Head(s) \notin Whitespace THEN 0
    ELSE 1 + LeadingSpace(Tail(s))

RECURSIVE TrailingSpace(_)
TrailingSpace(s) ==
    IF s = <<>> \/ s[Len(s)] \notin Whitespace THEN 0
    ELSE 1 + TrailingSpace(SubSeq(s, 1, Len(s) - 1))

\* s.trim()
Trim(s) ==
    IF LeadingSpace(s) = Len(s) THEN <<>>
    ELSE SubSeq(s, LeadingSpace(s) + 1, Len(s) - TrailingSpace(s))

\* whether pat occurs in s at position i
MatchesAt(s, pat, i) ==
    /\ i >= 0
    /\ i + Len(pat) <= Len(s)
    /\ \A k \in 1..Len(pat) : s[i + k] = pat[k]

\* the backward scan of s.lastIndexOf(pat, fromIndex), from position i down
RECURSIVE ScanBack(_, _, _)
ScanBack(s, pat, i) ==
    IF i < 0 THEN -1
    ELSE IF MatchesAt(s, pat, i) THEN i
    ELSE ScanBack(s, pat, i - 1)

lastIndexOf(s, pat, fromIndex) ==
    ScanBack(s, pat, Min(fromIndex, Len(s) - Len(pat)))

\* index > MAX_DATA_CHARS * 0.7
BeyondThreshold(index) == 10 * index > 7 * MAX_DATA_CHARS

\* breakPoint with the two tests in the other order: a word boundary is
\* preferred to a sentence boundary
breakPointSpaceFirst(rem) ==
    LET periodIndex == lastIndexOf(rem, <<".", " ">>, MAX_DATA_CHARS)
        spaceIndex == lastIndexOf(rem, <<" ">>, MAX_DATA_CHARS)
    IN IF BeyondThreshold(spaceIndex) THEN spaceIndex
       ELSE IF BeyondThreshold(periodIndex) THEN periodIndex + 1
       ELSE MAX_DATA_CHARS

\* the break point chunkData takes in a text longer than MAX_DATA_CHARS
breakPoint(rem) ==
    LET periodIndex == lastIndexOf(rem, <<".", " ">>, MAX_DATA_CHARS)
        spaceIndex == lastIndexOf(rem, <<" ">>, MAX_DATA_CHARS)
    IN IF BeyondThreshold(periodIndex) THEN periodIndex + 1
       ELSE IF BeyondThreshold(spaceIndex) THEN spaceIndex
       ELSE MAX_DATA_CHARS

\* chunks.push(remaining.slice(0, breakPoint).trim())
cutChunk(rem) == Trim(Slice(rem, 0, breakPoint(rem)))

\* cutRemaining skipping the character at the break point
cutRemainingSkipOne(rem) == Trim(SliceFrom(rem, breakPoint(rem) + 1))

\* cutRemaining slicing nothing off when the break point is a space
cutRemainingAfterPeriod(rem) ==
    IF rem[breakPoint(rem)] = " " THEN rem ELSE Trim(SliceFrom(rem, breakPoint(rem)))

\* remaining = remaining.slice(breakPoint).trim()
cutRemaining(rem) == Trim(SliceFrom(rem, breakPoint(rem)))

TextsOfLen(n) == [1..n -> Alphabet]

ChunkerIdle ==
    /\ data = <<>>
    /\ remaining = <<>>
    /\ chunks = <<>>
    /\ base = 0
    /\ spans = <<>>
    /\ cuts = <<>>

-----------------------------------------------------------------------------
(* Inputs of the chapter planner *)

TimeGrid == {GridStep * k : k \in 0..MaxTick}

\* The repair never reads a chapter's type: proposals carry one type.
ProposedChapters ==
    [type : {"section"}, start_sec : TimeGrid, end_sec : TimeGrid]

FailureResponses == {[kind |-> k, chapters |-> <<>>] : k \in FailureKinds}

ProposalResponses ==
    {[kind |-> "chapters", chapters |-> p] : p \in SeqsUpTo(ProposedChapters, MaxChapters)}

TranscriptSegmentOf(s, e, l) ==
    [start_time |-> s, end_time |-> e, speaker_label |-> l]

\* A transcript of duration d: one segment, or two speakers talking over
\* each other with the longer segment first.
TranscriptsOf(d) ==
    { <<TranscriptSegmentOf(0, d, "spk_0")>>,
      <<TranscriptSegmentOf(0, d, "spk_0"), TranscriptSegmentOf(d \div 2, d - 1, "spk_1")>> }

RepairTranscripts ==
    {<<>>} \cup UNION {TranscriptsOf(10 * k) : k \in 1..MaxDurTens}

FallbackTranscripts ==
    UNION {TranscriptsOf(10 * k) : k \in 1..MaxLongDurTens}

NoResponse == [kind |-> "none", chapters |-> <<>>]

-----------------------------------------------------------------------------
(* types.ts, identify-speakers.ts, identify-segments.ts and the rest of    *)
(* ingest-to-graphiti.ts, as far as the handler uses them                  *)

SegmentTypes ==
    {"show-intro", "episode-intro", "guest-intro", "credits", "promotion",
     "summary", "analysis", "conclusion", "sound-only", "other"}

\* Segment types that are saved to Narrows but not ingested to Graphiti
SKIP_GRAPHITI_TYPES == {"promotion", "credits", "sound-only"}

\* [...new Set(segments.map((s) => s.speaker_label))]
speakerLabels(segs) == {segs[i].speaker_label : i \in 1..Len(segs)}

\* label.replace('spk_', '')
LabelSuffix(label) ==
    CASE label = "spk_0" -> "0"
      [] label = "spk_1" -> "1"
      [] label = "spk_2" -> "2"
      [] OTHER -> label

\* createDefaultSpeakerData with the test for speaker 0 left out
createDefaultSpeakerDataNoHost(labels) ==
    [l \in labels |-> [name |-> <<"Speaker ", LabelSuffix(l)>>, role |-> "unknown"]]

\* a name is the list of the parts of its template literal
createDefaultSpeakerData(labels) ==
    [l \in labels |->
        IF LabelSuffix(l) = "0"
        THEN [name |-> <<"Host">>, role |-> "host"]
        ELSE [name |-> <<"Speaker ", LabelSuffix(l)>>, role |-> "unknown"]]

\* for (const speaker of result.speakers) speakerData[speaker.id] = {...}:
\* a later entry for an id overwrites an earlier one
speakerDataOf(speakers) ==
    [id \in {speakers[n].id : n \in 1..Len(speakers)} |->
        LET last == MaxOfSet({n \in 1..Len(speakers) : speakers[n].id = id})
        IN [name |-> speakers[last].name, role |-> speakers[last].role]]

\* identifySpeakers without the loop that represents every label
identifySpeakersNoBackfill(segs, resp) ==
    LET labels == speakerLabels(segs)
    IN IF labels = {} THEN <<>>
       ELSE IF resp.kind \in FailureKinds THEN createDefaultSpeakerData(labels)
       ELSE speakerDataOf(resp.speakers)

\* resp.speakers is the array result.speakers of a parsed answer
identifySpeakers(segs, resp) ==
    LET labels == speakerLabels(segs)
        named == speakerDataOf(resp.speakers)
    IN IF labels = {} THEN <<>>
       ELSE IF resp.kind \in FailureKinds THEN createDefaultSpeakerData(labels)
       ELSE [l \in labels \cup DOMAIN named |->
                IF l \in DOMAIN named THEN named[l]
                ELSE [name |-> <<"Speaker ", LabelSuffix(l)>>, role |-> "unknown"]]

\* identifySegmentsInChapter with a fallback in the manner of the chapter
\* planner: a failing call yields one segment over the chapter
identifySegmentsInChapterSynthesized(chapter, resp) ==
    IF resp.kind \in FailureKinds
    THEN <<[type |-> "other", episodeStartSec |-> chapter.episodeStartSec,
            episodeEndSec |-> chapter.episodeEndSec]>>
    ELSE [n \in 1..Len(resp.segments) |->
            [type |-> resp.segments[n].type,
             episodeStartSec |-> Max(chapter.episodeStartSec, resp.segments[n].start_sec),
             episodeEndSec |-> Min(chapter.episodeEndSec, resp.segments[n].end_sec)]]

\* identifySegmentsInChapter: the mapping of a parsed answer, with the
\* clamping of the bounds into the chapter ([] for every failing outcome)
identifySegmentsInChapter(chapter, resp) ==
    IF resp.kind \in FailureKinds THEN <<>>
    ELSE [n \in 1..Len(resp.segments) |->
            [type |-> resp.segments[n].type,
             episodeStartSec |-> Max(chapter.episodeStartSec, resp.segments[n].start_sec),
             episodeEndSec |-> Min(chapter.episodeEndSec, resp.segments[n].end_sec)]]

\* identifySegments: the Segment objects pushed for one chapter; firstId
\* stands for the fresh uuidv4() values
segmentsOfChapter(chapter, chapterSegments, firstId) ==
    [n \in 1..Len(chapterSegments) |->
        [id |-> firstId + n - 1,
         chapterId |-> chapter.id,
         type |-> chapterSegments[n].type,
         episodeStartSec |-> chapterSegments[n].episodeStartSec,
         episodeEndSec |-> chapterSegments[n].episodeEndSec]]

\* segments.filter((seg) => !SKIP_GRAPHITI_TYPES.has(seg.type)) without the
\* test: every segment is ingested
segmentsToIngestUnfiltered(segs) == segs

ToBeIngested(seg) == seg.type \notin SKIP_GRAPHITI_TYPES

\* segments.filter((seg) => !SKIP_GRAPHITI_TYPES.has(seg.type))
segmentsToIngest(segs) == SelectSeq(segs, ToBeIngested)

\* the loop of chunkData on a text longer than MAX_DATA_CHARS
RECURSIVE chunkLoop(_)
chunkLoop(rem) ==
    IF Len(rem) = 0 THEN <<>>
    ELSE IF Len(rem) <= MAX_DATA_CHARS THEN <<rem>>
    ELSE <<cutChunk(rem)>> \o chunkLoop(cutRemaining(rem))

chunkData(text) ==
    IF Len(text) <= MAX_DATA_CHARS THEN <<text>> ELSE chunkLoop(text)

-----------------------------------------------------------------------------
(* Inputs of the handler *)

EpisodeIds == {"e1", "e2"}

Invocations == {"inv1", "inv2"}

\* event.Records, as the episode ids of the message bodies; the ids are
\* interchangeable, so the first record is about e1
RecordLists ==
    {recs \in UNION {[1..n -> EpisodeIds] : n \in 1..MaxRecords} : recs[1] = "e1"}

\* the transcripts fetched in handler runs: an empty one, and 20 s of two
\* speakers
HandlerTranscripts ==
    { <<>>,
      <<TranscriptSegmentOf(0, 20, "spk_0"), TranscriptSegmentOf(10, 19, "spk_1")>> }

\* whether the stored episode has an audioMediaId: e1 may have one, e2 has
\* none
StoredAudio(ep) == IF ep = "e1" THEN BOOLEAN ELSE {FALSE}

SpeakerOf(id, n, r) == [id |-> id, name |-> <<n>>, role |-> r]

\* the answers of the speaker generation call: it names one speaker
SpeakerResponses ==
    {[kind |-> "speakers", speakers |-> <<SpeakerOf("spk_0", "Ann", "host")>>]}

SpeakerFailures == {[kind |-> "error", speakers |-> <<>>]}

\* the answer of the chapter generation call in handler runs: two chapters
\* over the 20 s
HandlerChapterResponses ==
    {[kind |-> "chapters",
      chapters |-> <<[type |-> "introduction", start_sec |-> 0, end_sec |-> 10],
                     [type |-> "section", start_sec |-> 10, end_sec |-> 20]>>]}

HandlerChapterFailures == {[kind |-> "error", chapters |-> <<>>]}

\* the types in the answers of handler runs: the three that ingestion skips
\* and one that it takes
HandlerSegmentTypes == {"promotion", "credits", "sound-only", "analysis"}

\* the answers of the segment generation call for a chapter: up to n
\* segments over the chapter's range
SegmentResponses(chapter, n) ==
    {[kind |-> "segments", segments |-> p] :
        p \in SeqsUpTo([type : HandlerSegmentTypes,
                        start_sec : {chapter.episodeStartSec},
                        end_sec : {chapter.episodeEndSec}], n)}

SegmentFailures == {[kind |-> "error", segments |-> <<>>]}

\* formattedData, by its size: a document within MAX_DATA_CHARS and one
\* that has to be cut
HandlerDocuments == {<<"a", "a", ".">>, <<"a", "a", "a", " ", "a", "a", "a">>}

-----------------------------------------------------------------------------
(* handler.ts: main.  inv[i] holds the event and the locals of invocation  *)
(* i; one action per awaited call and outcome.  MEDIA_BUCKET_NAME is set   *)
(* and the record bodies are well-formed JSON.                            *)

NoEpisode == [found |-> FALSE, audioMediaId |-> FALSE]

\* the locals at the start of the processing of a record
FreshLocals ==
    [episode |-> NoEpisode, segments |-> <<>>, speakerData |-> <<>>,
     chapters |-> <<>>, identifiedSegments |-> <<>>, k |-> 0,
     segmentsToIngest |-> <<>>, context |-> "none", dataChunks |-> <<>>,
     j |-> 0, graphitiIds |-> <<>>]

LocalsOf(p, recs, r, err) ==
    [pc |-> p, records |-> recs, rec |-> r, error |-> err] @@ FreshLocals

NotInvoked == LocalsOf("notInvoked", <<>>, 0, "none")

Invoked(recs) == LocalsOf("fetchEpisode", recs, 1, "none")

\* the loop over event.Records moves on: continue, or the end of the body
NextRecord(L) ==
    LocalsOf(IF L.rec < Len(L.records) THEN "fetchEpisode" ELSE "returned",
             L.records, L.rec + 1, "none")

\* an exception reaches the catch of main
Caught(L, err) == [L EXCEPT !.pc = "catch", !.error = err]

\* episodeId kept in a variable of the module, which every invocation that
\* runs in the same process sets at the start of a record
episodeIdOfModule(L) ==
    IF L.pc = "fetchEpisode" \/ Len(log) = 0 THEN L.records[L.rec]
    ELSE log[Len(log)].ep

\* const { episodeId } = message
episodeId(L) == L.records[L.rec]

\* a request of invocation i: the operation, what it is about, how it ended
Request(i, L, op, id, type, chunk, ok) ==
    [inv |-> i, rec |-> L.rec, ep |-> episodeId(L), op |-> op,
     id |-> id, type |-> type, chunk |-> chunk, ok |-> ok, ids |-> <<>>]

\* the request of updateEpisodeComplete(episodeId, graphitiIds): its body
\* carries the list of ids
CompleteRequest(i, L, ok) ==
    [Request(i, L, "putComplete", Len(L.graphitiIds), "none", -1, ok)
        EXCEPT !.ids = L.graphitiIds]

\* ingestSegmentsToGraphiti: the loop moves to the next segment, or returns
NextIngest(L) ==
    IF L.k < Len(L.segmentsToIngest)
    THEN [L EXCEPT !.pc = "generateContextualRetrieval", !.k = L.k + 1,
                   !.context = "none", !.dataChunks = <<>>, !.j = 0]
    ELSE [L EXCEPT !.pc = "updateEpisodeComplete", !.k = 0,
                   !.context = "none", !.dataChunks = <<>>, !.j = 0]

\* ingestSegmentsToGraphiti is entered: the filter, then the loop
EnterIngest(L) ==
    LET toIngest == segmentsToIngest(L.identifiedSegments)
    IN IF Len(toIngest) = 0
       THEN [L EXCEPT !.pc = "updateEpisodeComplete", !.k = 0]
       ELSE [L EXCEPT !.pc = "generateContextualRetrieval", !.k = 1,
                      !.segmentsToIngest = toIngest]

\* for (const segment of identifiedSegments) await upsertSegment(segment)
EnterUpsertSegments(L) ==
    IF Len(L.identifiedSegments) = 0 THEN EnterIngest(L)
    ELSE [L EXCEPT !.pc = "upsertSegment", !.k = 1]

\* identifySegments is entered: [] without a transcript or without chapters
EnterIdentifySegments(L) ==
    IF Len(L.segments) = 0 \/ Len(L.chapters) = 0
    THEN EnterUpsertSegments(L)
    ELSE [L EXCEPT !.pc = "identifySegments", !.k = 1]

\* for (const chapter of chapters) await upsertChapter(chapter)
EnterUpsertChapters(L) ==
    IF Len(L.chapters) = 0 THEN EnterIdentifySegments(L)
    ELSE [L EXCEPT !.pc = "upsertChapter", !.k = 1]

HandlerIdle ==
    /\ inv = [i \in Invocations |-> NotInvoked]
    /\ log = <<>>
    /\ budget = [faults |-> 0, segments |-> 0]

ChapterPlannerIdle ==
    /\ segments = <<>>
    /\ response = NoResponse
    /\ chapters = <<>>

StagesIdle ==
    /\ speakerData = <<>>
    /\ allSegments = <<>>
    /\ targets = <<>>
    /\ blocks = <<>>

\* one invocation with an event of one or more records
Init ==
    /\ pc = "handler"
    /\ ChapterPlannerIdle
    /\ ChunkerIdle
    /\ StagesIdle
    /\ \E recs \in RecordLists :
        inv = [i \in Invocations |-> IF i = "inv1" THEN Invoked(recs) ELSE NotInvoked]
    /\ log = <<>>
    /\ budget = [faults |-> MaxFaults, segments |-> MaxSegments]

\* invocation i issues a request and goes on with the locals L
Issue(i, L, request) ==
    /\ inv' = [inv EXCEPT ![i] = L]
    /\ log' = Append(log, request)
    /\ UNCHANGED <<pc, chapterVars, chunkVars, stageVars>>

Succeeds == UNCHANGED budget

Fails ==
    /\ budget.faults > 0
    /\ budget' = [budget EXCEPT !.faults = @ - 1]

\* const episode = await fetchEpisode(episodeId)
FetchEpisode(i) ==
    /\ inv[i].pc = "fetchEpisode"
    /\ \E audio \in StoredAudio(episodeId(inv[i])) :
        Issue(i, [inv[i] EXCEPT !.pc = "fetchSeries",
                                !.episode = [found |-> TRUE, audioMediaId |-> audio]],
              Request(i, inv[i], "getEpisode", 0, "none", -1, TRUE))
    /\ Succeeds

\* fetchEpisode returns null (the response is not ok): continue
FetchEpisodeNotFound(i) ==
    /\ inv[i].pc = "fetchEpisode"
    /\ Issue(i, NextRecord(inv[i]),
             Request(i, inv[i], "getEpisode", 0, "none", -1, FALSE))
    /\ Fails

\* const series = await fetchSeries(episode.seriesId)
FetchSeries(i) ==
    /\ inv[i].pc = "fetchSeries"
    /\ Issue(i, [inv[i] EXCEPT !.pc = IF inv[i].episode.audioMediaId
                                      THEN "fetchTranscript" ELSE "noAudio"],
             Request(i, inv[i], "getSeries", 0, "none", -1, TRUE))
    /\ Succeeds

\* fetchSeries returns null: continue
FetchSeriesNotFound(i) ==
    /\ inv[i].pc = "fetchSeries"
    /\ Issue(i, NextRecord(inv[i]),
             Request(i, inv[i], "getSeries", 0, "none", -1, FALSE))
    /\ Fails

\* if (!episode.audioMediaId) { await updateEpisodeError(...); continue }
NoAudioMediaId(i) ==
    /\ inv[i].pc = "noAudio"
    /\ Issue(i, NextRecord(inv[i]),
             Request(i, inv[i], "putFailed", 0, "No audio media ID", -1, TRUE))
    /\ Succeeds

\* const transcript = await fetchTranscript(bucketName, episode.audioMediaId)
FetchTranscript(i) ==
    /\ inv[i].pc = "fetchTranscript"
    /\ \E t \in HandlerTranscripts :
        Issue(i, [inv[i] EXCEPT !.pc = "identifySpeakers", !.segments = t],
              Request(i, inv[i], "getTranscript", 0, "none", -1, TRUE))
    /\ Succeeds

\* fetchTranscript throws (no body, or the object cannot be read)
FetchTranscriptFails(i) ==
    /\ inv[i].pc = "fetchTranscript"
    /\ Issue(i, Caught(inv[i], "fetchTranscript"),
             Request(i, inv[i], "getTranscript", 0, "none", -1, FALSE))
    /\ Fails

\* identifySpeakers with no speaker label: {} without a call
IdentifySpeakersNone(i) ==
    /\ inv[i].pc = "identifySpeakers"
    /\ speakerLabels(inv[i].segments) = {}
    /\ inv' = [inv EXCEPT ![i] = [inv[i] EXCEPT !.pc = "updateEpisodeSpeakers",
                                                !.speakerData = <<>>]]
    /\ UNCHANGED <<pc, chapterVars, chunkVars, stageVars, log, budget>>

\* const speakerData = await identifySpeakers(...), the call answered
IdentifySpeakers(i) ==
    /\ inv[i].pc = "identifySpeakers"
    /\ speakerLabels(inv[i].segments) # {}
    /\ \E r \in SpeakerResponses :
        Issue(i, [inv[i] EXCEPT !.pc = "updateEpisodeSpeakers",
                                !.speakerData = identifySpeakers(inv[i].segments, r)],
              Request(i, inv[i], "llmSpeakers", 0, "none", -1, TRUE))
    /\ Succeeds

\* identifySpeakers, the call failing: the default speaker data
IdentifySpeakersFails(i) ==
    /\ inv[i].pc = "identifySpeakers"
    /\ speakerLabels(inv[i].segments) # {}
    /\ \E r \in SpeakerFailures :
        Issue(i, [inv[i] EXCEPT !.pc = "updateEpisodeSpeakers",
                                !.speakerData = identifySpeakers(inv[i].segments, r)],
              Request(i, inv[i], "llmSpeakers", 0, "none", -1, FALSE))
    /\ Fails

\* await updateEpisodeSpeakers(episodeId, speakerData): the response is not
\* inspected
UpdateEpisodeSpeakers(i) ==
    /\ inv[i].pc = "updateEpisodeSpeakers"
    /\ Issue(i, [inv[i] EXCEPT !.pc = "identifyChapters"],
             Request(i, inv[i], "putSpeakers", 0, "none", -1, TRUE))
    /\ Succeeds

\* updateEpisodeSpeakers: the API answers with an error status, which the
\* client does not look at: nothing is saved and the handler goes on
UpdateEpisodeSpeakersRefused(i) ==
    /\ inv[i].pc = "updateEpisodeSpeakers"
    /\ Issue(i, [inv[i] EXCEPT !.pc = "identifyChapters"],
             Request(i, inv[i], "putSpeakers", 0, "none", -1, FALSE))
    /\ Fails

\* updateEpisodeSpeakers: fetch rejects
UpdateEpisodeSpeakersFails(i) ==
    /\ inv[i].pc = "updateEpisodeSpeakers"
    /\ Issue(i, Caught(inv[i], "updateEpisodeSpeakers"),
             Request(i, inv[i], "putSpeakers", 0, "none", -1, FALSE))
    /\ Fails

\* identifyChapters with an empty transcript: [] without a call
IdentifyChaptersNone(i) ==
    /\ inv[i].pc = "identifyChapters"
    /\ Len(inv[i].segments) = 0
    /\ inv' = [inv EXCEPT ![i] =
                  EnterUpsertChapters([inv[i] EXCEPT !.chapters =
                                          identifyChapters(inv[i].segments, NoResponse)])]
    /\ UNCHANGED <<pc, chapterVars, chunkVars, stageVars, log, budget>>

\* const chapters = await identifyChapters(...), the call answered
IdentifyChapters(i) ==
    /\ inv[i].pc = "identifyChapters"
    /\ Len(inv[i].segments) > 0
    /\ \E r \in HandlerChapterResponses :
        Issue(i, EnterUpsertChapters([inv[i] EXCEPT !.chapters =
                                         identifyChapters(inv[i].segments, r)]),
              Request(i, inv[i], "llmChapters", 0, "none", -1, TRUE))
    /\ Succeeds

\* identifyChapters, the call failing: the default chapters
IdentifyChaptersFails(i) ==
    /\ inv[i].pc = "identifyChapters"
    /\ Len(inv[i].segments) > 0
    /\ \E r \in HandlerChapterFailures :
        Issue(i, EnterUpsertChapters([inv[i] EXCEPT !.chapters =
                                         identifyChapters(inv[i].segments, r)]),
              Request(i, inv[i], "llmChapters", 0, "none", -1, FALSE))
    /\ Fails

\* await upsertChapter(chapter)
UpsertChapter(i) ==
    /\ inv[i].pc = "upsertChapter"
    /\ LET L == inv[i]
           chapter == L.chapters[L.k]
       IN Issue(i, IF L.k < Len(L.chapters) THEN [L EXCEPT !.k = L.k + 1]
                   ELSE EnterIdentifySegments(L),
                Request(i, L, "putChapter", chapter.id, chapter.type, -1, TRUE))
    /\ Succeeds

\* upsertChapter throws: the response is not ok
UpsertChapterFails(i) ==
    /\ inv[i].pc = "upsertChapter"
    /\ LET L == inv[i]
           chapter == L.chapters[L.k]
       IN Issue(i, Caught(L, "upsertChapter"),
                Request(i, L, "putChapter", chapter.id, chapter.type, -1, FALSE))
    /\ Fails

\* identifySegments, one turn of the loop over the chapters: the call answers
\* with segments, which are pushed with fresh ids
IdentifySegmentsInChapter(i) ==
    /\ inv[i].pc = "identifySegments"
    /\ LET L == inv[i]
           chapter == L.chapters[L.k]
       IN \E r \in SegmentResponses(chapter, budget.segments) :
            LET found == segmentsOfChapter(chapter, identifySegmentsInChapter(chapter, r),
                                           Len(L.identifiedSegments) + 1)
                M == [L EXCEPT !.identifiedSegments = @ \o found]
            IN /\ Issue(i, IF L.k < Len(L.chapters) THEN [M EXCEPT !.k = L.k + 1]
                           ELSE EnterUpsertSegments(M),
                        Request(i, L, "llmSegments", chapter.id, chapter.type, -1, TRUE))
               /\ budget' = [budget EXCEPT !.segments = @ - Len(found)]

\* identifySegmentsInChapter without its catch: the failure leaves
\* identifySegments
IdentifySegmentsInChapterThrows(i) ==
    /\ inv[i].pc = "identifySegments"
    /\ LET L == inv[i]
           chapter == L.chapters[L.k]
       IN Issue(i, Caught(L, "identifySegments"),
                Request(i, L, "llmSegments", chapter.id, chapter.type, -1, FALSE))
    /\ Fails

\* identifySegmentsInChapter fails: [] for this chapter
IdentifySegmentsInChapterFails(i) ==
    /\ inv[i].pc = "identifySegments"
    /\ LET L == inv[i]
           chapter == L.chapters[L.k]
       IN \E r \in SegmentFailures :
            LET found == segmentsOfChapter(chapter, identifySegmentsInChapter(chapter, r),
                                           Len(L.identifiedSegments) + 1)
                M == [L EXCEPT !.identifiedSegments = @ \o found]
            IN Issue(i, IF L.k < Len(L.chapters) THEN [M EXCEPT !.k = L.k + 1]
                        ELSE EnterUpsertSegments(M),
                     Request(i, L, "llmSegments", chapter.id, chapter.type, -1, FALSE))
    /\ Fails

\* await upsertSegment(segment)
UpsertSegment(i) ==
    /\ inv[i].pc = "upsertSegment"
    /\ LET L == inv[i]
           segment == L.identifiedSegments[L.k]
       IN Issue(i, IF L.k < Len(L.identifiedSegments) THEN [L EXCEPT !.k = L.k + 1]
                   ELSE EnterIngest(L),
                Request(i, L, "putSegment", segment.id, segment.type, -1, TRUE))
    /\ Succeeds

\* upsertSegment throws: the response is not ok
UpsertSegmentFails(i) ==
    /\ inv[i].pc = "upsertSegment"
    /\ LET L == inv[i]
           segment == L.identifiedSegments[L.k]
       IN Issue(i, Caught(L, "upsertSegment"),
                Request(i, L, "putSegment", segment.id, segment.type, -1, FALSE))
    /\ Fails

\* updateEpisodeError in the missing-audio branch: fetch rejects, inside try
NoAudioMediaIdFails(i) ==
    /\ inv[i].pc = "noAudio"
    /\ Issue(i, Caught(inv[i], "updateEpisodeError"),
             Request(i, inv[i], "putFailed", 0, "No audio media ID", -1, FALSE))
    /\ Fails

\* updateEpisodeError in the missing-audio branch: the API answers with an
\* error status, which the client does not look at
NoAudioMediaIdRefused(i) ==
    /\ inv[i].pc = "noAudio"
    /\ Issue(i, NextRecord(inv[i]),
             Request(i, inv[i], "putFailed", 0, "No audio media ID", -1, FALSE))
    /\ Fails

\* ingestSegmentsToGraphiti, a turn of the loop up to chunkData: the context
\* call answers; formattedData is a document of either size
GenerateContextualRetrieval(i) ==
    /\ inv[i].pc = "generateContextualRetrieval"
    /\ LET L == inv[i]
           segment == L.segmentsToIngest[L.k]
       IN \E doc \in HandlerDocuments :
            Issue(i, [L EXCEPT !.pc = "sendToGraphiti", !.context = "generated",
                               !.dataChunks = chunkData(doc), !.j = 1],
                  Request(i, L, "llmContext", segment.id, segment.type, -1, TRUE))
    /\ Succeeds

\* generateContextualRetrieval calls the service again after a failing call
GenerateContextualRetrievalRetried(i) ==
    /\ inv[i].pc = "generateContextualRetrieval"
    /\ LET L == inv[i]
           segment == L.segmentsToIngest[L.k]
       IN Issue(i, L, Request(i, L, "llmContext", segment.id, segment.type, -1, FALSE))
    /\ Fails

\* generateContextualRetrieval with an empty answer ('') or a failing call
\* (the templated sentence): ingestion goes on with that context
GenerateContextualRetrievalFails(i) ==
    /\ inv[i].pc = "generateContextualRetrieval"
    /\ LET L == inv[i]
           segment == L.segmentsToIngest[L.k]
       IN \E doc \in HandlerDocuments, c \in {"empty", "template"} :
            Issue(i, [L EXCEPT !.pc = "sendToGraphiti", !.context = c,
                               !.dataChunks = chunkData(doc), !.j = 1],
                  Request(i, L, "llmContext", segment.id, segment.type, -1,
                          c = "empty"))
    /\ Fails

\* `${segment.id}-chunk-${j}` when there are several chunks (-1: the plain id)
chunkIndex(L) == IF Len(L.dataChunks) > 1 THEN L.j - 1 ELSE -1

\* const graphitiId = await sendToGraphiti(chunk, ...); graphitiIds.push
SendToGraphiti(i) ==
    /\ inv[i].pc = "sendToGraphiti"
    /\ LET L == inv[i]
           segment == L.segmentsToIngest[L.k]
           M == [L EXCEPT !.graphitiIds = Append(@, Len(log) + 1)]
       IN Issue(i, IF L.j < Len(L.dataChunks) THEN [M EXCEPT !.j = L.j + 1]
                   ELSE NextIngest(M),
                Request(i, L, "submit", segment.id, segment.type, chunkIndex(L), TRUE))
    /\ Succeeds

\* sendToGraphiti throws and the loop has no catch: the failure leaves
\* ingestSegmentsToGraphiti
SendToGraphitiThrows(i) ==
    /\ inv[i].pc = "sendToGraphiti"
    /\ LET L == inv[i]
           segment == L.segmentsToIngest[L.k]
       IN Issue(i, Caught(L, "sendToGraphiti"),
                Request(i, L, "submit", segment.id, segment.type, chunkIndex(L), FALSE))
    /\ Fails

\* sendToGraphiti throws and the catch sits inside the loop over the
\* chunks: the next chunk of the segment is sent
SendToGraphitiFailsGoesOn(i) ==
    /\ inv[i].pc = "sendToGraphiti"
    /\ LET L == inv[i]
           segment == L.segmentsToIngest[L.k]
       IN Issue(i, IF L.j < Len(L.dataChunks) THEN [L EXCEPT !.j = L.j + 1]
                   ELSE NextIngest(L),
                Request(i, L, "submit", segment.id, segment.type, chunkIndex(L), FALSE))
    /\ Fails

\* sendToGraphiti throws: caught per segment, the remaining chunks of the
\* segment are not sent
SendToGraphitiFails(i) ==
    /\ inv[i].pc = "sendToGraphiti"
    /\ LET L == inv[i]
           segment == L.segmentsToIngest[L.k]
       IN Issue(i, NextIngest(L),
                Request(i, L, "submit", segment.id, segment.type, chunkIndex(L), FALSE))
    /\ Fails

\* updateEpisodeComplete is answered and a statement after it throws
UpdateEpisodeCompleteThenThrows(i) ==
    /\ inv[i].pc = "updateEpisodeComplete"
    /\ Issue(i, Caught(inv[i], "summary"),
             CompleteRequest(i, inv[i], TRUE))
    /\ Succeeds

\* await updateEpisodeComplete(episodeId, graphitiIds): the response is not
\* inspected; the end of the body of the loop over the records
UpdateEpisodeComplete(i) ==
    /\ inv[i].pc = "updateEpisodeComplete"
    /\ Issue(i, NextRecord(inv[i]),
             CompleteRequest(i, inv[i], TRUE))
    /\ Succeeds

\* updateEpisodeComplete: the API answers with an error status, which the
\* client does not look at
UpdateEpisodeCompleteRefused(i) ==
    /\ inv[i].pc = "updateEpisodeComplete"
    /\ Issue(i, NextRecord(inv[i]),
             CompleteRequest(i, inv[i], FALSE))
    /\ Fails

\* updateEpisodeComplete: fetch rejects
UpdateEpisodeCompleteFails(i) ==
    /\ inv[i].pc = "updateEpisodeComplete"
    /\ Issue(i, Caught(inv[i], "updateEpisodeComplete"),
             CompleteRequest(i, inv[i], FALSE))
    /\ Fails

\* a catch that reports the failure and lets the loop go on
CatchGoesOn(i) ==
    /\ inv[i].pc = "catch"
    /\ Issue(i, NextRecord(inv[i]),
             Request(i, inv[i], "putFailed", 0, inv[i].error, -1, TRUE))
    /\ Succeeds

\* catch (error) { await updateEpisodeError(...); throw error }
Catch(i) ==
    /\ inv[i].pc = "catch"
    /\ Issue(i, [inv[i] EXCEPT !.pc = "thrown"],
             Request(i, inv[i], "putFailed", 0, inv[i].error, -1, TRUE))
    /\ Succeeds

\* updateEpisodeError in the catch: the API answers with an error status,
\* which the client does not look at; the caught exception is thrown.  As
\* for CatchFails, whatever is left of the budget of faults.
CatchRefused(i) ==
    /\ inv[i].pc = "catch"
    /\ Issue(i, [inv[i] EXCEPT !.pc = "thrown"],
             Request(i, inv[i], "putFailed", 0, inv[i].error, -1, FALSE))
    /\ UNCHANGED budget

\* updateEpisodeError in the catch rejects: that exception leaves main.  The
\* report of a failure can fail whatever is left of the budget of faults.
CatchFails(i) ==
    /\ inv[i].pc = "catch"
    /\ Issue(i, [inv[i] EXCEPT !.pc = "thrown", !.error = "updateEpisodeError"],
             Request(i, inv[i], "putFailed", 0, inv[i].error, -1, FALSE))
    /\ UNCHANGED budget

Next ==
    \E i \in Invocations :
        \/ FetchEpisode(i)
        \/ FetchEpisodeNotFound(i)
        \/ FetchSeries(i)
        \/ FetchSeriesNotFound(i)
        \/ NoAudioMediaId(i)
        \/ NoAudioMediaIdFails(i)
        \/ FetchTranscript(i)
        \/ FetchTranscriptFails(i)
        \/ IdentifySpeakersNone(i)
        \/ IdentifySpeakers(i)
        \/ IdentifySpeakersFails(i)
        \/ UpdateEpisodeSpeakers(i)
        \/ UpdateEpisodeSpeakersFails(i)
        \/ IdentifyChaptersNone(i)
        \/ IdentifyChapters(i)
        \/ IdentifyChaptersFails(i)
        \/ UpsertChapter(i)
        \/ UpsertChapterFails(i)
        \/ IdentifySegmentsInChapter(i)
        \/ IdentifySegmentsInChapterFails(i)
        \/ UpsertSegment(i)
        \/ UpsertSegmentFails(i)
        \/ GenerateContextualRetrieval(i)
        \/ GenerateContextualRetrievalFails(i)
        \/ SendToGraphiti(i)
        \/ SendToGraphitiFails(i)
        \/ UpdateEpisodeComplete(i)
        \/ UpdateEpisodeCompleteFails(i)
        \/ Catch(i)
        \/ CatchFails(i)
        \/ UpdateEpisodeSpeakersRefused(i)
        \/ UpdateEpisodeCompleteRefused(i)
        \/ NoAudioMediaIdRefused(i)
        \/ CatchRefused(i)

Spec == Init /\ [][Next]_vars

-----------------------------------------------------------------------------
(* The chapter planner as a state machine: one call of identifyChapters *)

InitChapters ==
    /\ pc = "identifyChapters"
    /\ segments \in RepairTranscripts
    /\ response = NoResponse
    /\ chapters = <<>>
    /\ ChunkerIdle
    /\ HandlerIdle
    /\ StagesIdle

InitChapterFallback ==
    /\ pc = "identifyChapters"
    /\ segments \in FallbackTranscripts
    /\ response = NoResponse
    /\ chapters = <<>>
    /\ ChunkerIdle
    /\ HandlerIdle
    /\ StagesIdle

\* the generation call answers with a chapter list (possibly malformed)
ChaptersProposed ==
    /\ pc = "identifyChapters"
    /\ \E r \in ProposalResponses :
        /\ response' = r
        /\ chapters' = identifyChapters(segments, r)
    /\ pc' = "chaptersReturned"
    /\ UNCHANGED <<segments, chunkVars, handlerVars, stageVars>>

\* the generation call fails, or answers nothing usable
ChaptersCallFails ==
    /\ pc = "identifyChapters"
    /\ \E r \in FailureResponses :
        /\ response' = r
        /\ chapters' = identifyChapters(segments, r)
    /\ pc' = "chaptersReturned"
    /\ UNCHANGED <<segments, chunkVars, handlerVars, stageVars>>

\* the generation call answers with an empty chapter list
ChaptersProposedNone ==
    /\ pc = "identifyChapters"
    /\ response' = [kind |-> "chapters", chapters |-> <<>>]
    /\ chapters' = identifyChapters(segments, response')
    /\ pc' = "chaptersReturned"
    /\ UNCHANGED <<segments, chunkVars, handlerVars, stageVars>>

NextChapters == ChaptersProposed \/ ChaptersCallFails

NextChapterFallback == ChaptersCallFails \/ ChaptersProposedNone

SpecChapters == InitChapters /\ [][NextChapters]_vars

SpecChapterFallback == InitChapterFallback /\ [][NextChapterFallback]_vars

-----------------------------------------------------------------------------
(* chunkData as a state machine: one call, one action per path through the *)
(* function and per iteration of its loop                                 *)

InitChunk ==
    /\ pc = "chunkData"
    /\ \E n \in 0..MaxTextLen : data \in TextsOfLen(n)
    /\ remaining = <<>>
    /\ chunks = <<>>
    /\ base = 0
    /\ spans = <<>>
    /\ cuts = <<>>
    /\ ChapterPlannerIdle
    /\ HandlerIdle
    /\ StagesIdle

\* if (data.length <= MAX_DATA_CHARS) return [data]
ChunkWhole ==
    /\ pc = "chunkData"
    /\ Len(data) <= MAX_DATA_CHARS
    /\ chunks' = <<data>>
    /\ spans' = << <<0, Len(data)>> >>
    /\ pc' = "chunked"
    /\ UNCHANGED <<data, remaining, base, cuts, chapterVars, handlerVars, stageVars>>

\* const chunks = []; let remaining = data
ChunkBegin ==
    /\ pc = "chunkData"
    /\ Len(data) > MAX_DATA_CHARS
    /\ remaining' = data
    /\ chunks' = <<>>
    /\ pc' = "chunkLoop"
    /\ UNCHANGED <<data, base, spans, cuts, chapterVars, handlerVars, stageVars>>

\* one iteration that cuts: remaining is longer than MAX_DATA_CHARS
ChunkCut ==
    /\ pc = "chunkLoop"
    /\ Len(remaining) > MAX_DATA_CHARS
    /\ LET bp == breakPoint(remaining)
           piece == Slice(remaining, 0, bp)
           rest == SliceFrom(remaining, bp)
       IN /\ chunks' = Append(chunks, cutChunk(remaining))
          /\ remaining' = cutRemaining(remaining)
          /\ spans' = Append(spans,
                IF Trim(piece) = <<>> THEN <<base + bp, base + bp>>
                ELSE <<base + LeadingSpace(piece), base + bp - TrailingSpace(piece)>>)
          /\ cuts' = Append(cuts, base + bp)
          /\ base' = base + bp + LeadingSpace(rest)
    /\ UNCHANGED <<pc, data, chapterVars, handlerVars, stageVars>>

\* the last iteration: remaining fits, it is pushed and the loop breaks
ChunkLast ==
    /\ pc = "chunkLoop"
    /\ Len(remaining) > 0
    /\ Len(remaining) <= MAX_DATA_CHARS
    /\ chunks' = Append(chunks, remaining)
    /\ spans' = Append(spans, <<base, base + Len(remaining)>>)
    /\ pc' = "chunked"
    /\ UNCHANGED <<data, remaining, base, cuts, chapterVars, handlerVars, stageVars>>

\* while (remaining.length > 0) fails: nothing is left after a cut
ChunkExit ==
    /\ pc = "chunkLoop"
    /\ Len(remaining) = 0
    /\ pc' = "chunked"
    /\ UNCHANGED <<chunkVars, chapterVars, handlerVars, stageVars>>

NextChunk == ChunkWhole \/ ChunkBegin \/ ChunkCut \/ ChunkLast \/ ChunkExit

SpecChunk == InitChunk /\ [][NextChunk]_vars

-----------------------------------------------------------------------------
(* Claims about the chapter planner *)

Returned == pc = "chaptersReturned"

\* the call was made (the transcript is not empty) and a non-empty chapter
\* list came back from the service, so the result is the repaired proposal
Repaired ==
    /\ Returned
    /\ Len(segments) > 0
    /\ response.kind = "chapters"
    /\ Len(response.chapters) > 0

\* the call was made and the result is the default synthesis
Defaulted ==
    /\ Returned
    /\ Len(segments) > 0
    /\ \/ response.kind \in FailureKinds
       \/ response.kind = "chapters" /\ Len(response.chapters) = 0

Contiguous(chs) ==
    \A i \in 2..Len(chs) : chs[i].episodeStartSec = chs[i - 1].episodeEndSec

\* C1: the list returned by chapter repair has no gaps and no overlaps:
\* every chapter after the first starts where the previous one ends.
C1_RepairedContiguous == Repaired => Contiguous(chapters)

\* C2: the first chapter of the list returned by chapter repair starts at 0.
C2_RepairedStartsAtZero ==
    (Repaired /\ Len(chapters) > 0) => chapters[1].episodeStartSec = 0

\* C3: the last chapter of the list returned by chapter repair ends at the
\* episode duration and no returned chapter ends after it.
C3_RepairedEndsAtDuration ==
    (Repaired /\ Len(chapters) > 0) =>
        /\ chapters[Len(chapters)].episodeEndSec = episodeDuration(segments)
        /\ \A i \in 1..Len(chapters) :
              chapters[i].episodeEndSec <= episodeDuration(segments)

\* C4: every chapter returned by identifyChapters, repaired or default, lasts
\* at least 10 seconds.
C4_MinChapterDuration ==
    Returned =>
        \A i \in 1..Len(chapters) :
            chapters[i].episodeEndSec - chapters[i].episodeStartSec >= 10

\* C5: when the generation call fails, yields nothing usable or yields zero
\* chapters, the result is exactly the three chapters introduction, section,
\* credits, in that order, from 0 to the episode duration, each starting
\* where the previous one ends.
C5_DefaultChapters ==
    Defaulted =>
        /\ Len(chapters) = 3
        /\ <<chapters[1].type, chapters[2].type, chapters[3].type>>
              = <<"introduction", "section", "credits">>
        /\ chapters[1].episodeStartSec = 0
        /\ chapters[3].episodeEndSec = episodeDuration(segments)
        /\ chapters[2].episodeStartSec = chapters[1].episodeEndSec
        /\ chapters[3].episodeStartSec = chapters[2].episodeEndSec

\* a failed call on an episode long enough for the 60 second caps to apply,
\* and an empty chapter list on a short one
C5_Witness ==
    /\ Defaulted
    /\ \/ /\ response.kind = "error"
          /\ episodeDuration(segments) > 10 * DEFAULT_EDGE_SEC
          /\ chapters[1].episodeEndSec = DEFAULT_EDGE_SEC
       \/ /\ response.kind = "chapters"
          /\ episodeDuration(segments) < 10 * DEFAULT_EDGE_SEC

-----------------------------------------------------------------------------
(* Claims about chunkData *)

Chunked == pc = "chunked"

\* C6: every chunk chunkData emits has at most MAX_DATA_CHARS characters,
\* chunks cut at a sentence boundary included.
C6_ChunkWithinMax ==
    \A k \in 1..Len(chunks) : Len(chunks[k]) <= MAX_DATA_CHARS

Covered(i) == \E k \in 1..Len(spans) : spans[k][1] <= i /\ i < spans[k][2]

Dropped == {i \in 0..(Len(data) - 1) : ~Covered(i)}

\* the chunks are, in order, non-overlapping pieces of data
PiecesInOrder ==
    /\ Len(spans) = Len(chunks)
    /\ \A k \in 1..Len(chunks) :
        /\ 0 <= spans[k][1]
        /\ spans[k][1] <= spans[k][2]
        /\ spans[k][2] <= Len(data)
        /\ chunks[k] = SubSeq(data, spans[k][1] + 1, spans[k][2])
        /\ k < Len(chunks) => spans[k][2] <= spans[k + 1][1]

\* every position from i to the position c is dropped: i belongs to a run
\* of dropped characters that touches c
JoinedTo(i, c) ==
    \/ i < c /\ \A j \in i..(c - 1) : j \in Dropped
    \/ i >= c /\ \A j \in c..i : j \in Dropped

PeriodPositions(rem) ==
    {i \in 0..MAX_DATA_CHARS :
        i + 2 <= Len(rem) /\ rem[i + 1] = "." /\ rem[i + 2] = " "}

SpacePositions(rem) ==
    {i \in 0..MAX_DATA_CHARS : i + 1 <= Len(rem) /\ rem[i + 1] = " "}

Beyond70(S) == S # {} /\ 10 * MaxOfSet(S) > 7 * MAX_DATA_CHARS

\* the chunk the stated priority yields for a text longer than MAX_DATA_CHARS
ExpectedChunk(rem) ==
    IF Beyond70(PeriodPositions(rem))
    THEN Trim(SubSeq(rem, 1, MaxOfSet(PeriodPositions(rem)) + 1))
    ELSE IF Beyond70(SpacePositions(rem))
         THEN Trim(SubSeq(rem, 1, MaxOfSet(SpacePositions(rem))))
         ELSE Trim(SubSeq(rem, 1, MAX_DATA_CHARS))

-----------------------------------------------------------------------------
(* Ingestion in the handler (Spec) *)

IngestOps == {"llmContext", "submit"}

IngestPcs == {"generateContextualRetrieval", "sendToGraphiti", "updateEpisodeComplete"}

\* request n is a successful putSegment of segment (id, type) of record rec
\* of invocation i
PutSegmentAt(n, i, rec, id, type) ==
    /\ log[n].op = "putSegment"
    /\ log[n].ok
    /\ log[n].inv = i
    /\ log[n].rec = rec
    /\ log[n].id = id
    /\ log[n].type = type

\* C10: no context-generation request and no knowledge-graph submit request
\* is ever made for a segment of type promotion, credits or sound-only; every
\* such request is for a segment of another type that was saved by
\* putSegment before; and when ingestion runs for a record, every identified
\* segment of the record, the skipped types included, has been saved by
\* putSegment.
C10_SkippedTypesNotIngested ==
    /\ \A n \in 1..Len(log) :
        log[n].op \in IngestOps =>
            /\ log[n].type \notin SKIP_GRAPHITI_TYPES
            /\ \E m \in 1..(n - 1) :
                PutSegmentAt(m, log[n].inv, log[n].rec, log[n].id, log[n].type)
    /\ \A i \in Invocations :
        inv[i].pc \in IngestPcs =>
            \A k \in 1..Len(inv[i].identifiedSegments) :
                \E m \in 1..Len(log) :
                    PutSegmentAt(m, i, inv[i].rec, inv[i].identifiedSegments[k].id,
                                 inv[i].identifiedSegments[k].type)

\* a record was completed after a segment of a skipped type was saved and a
\* segment of another type was saved and submitted
C10_Witness ==
    \E c \in 1..Len(log) : \E a, b, d \in 1..(c - 1) :
        /\ log[c].op = "putComplete"
        /\ log[a].op = "putSegment" /\ log[a].ok
        /\ log[a].type \in SKIP_GRAPHITI_TYPES
        /\ log[b].op = "putSegment" /\ log[b].ok
        /\ log[b].type \notin SKIP_GRAPHITI_TYPES
        /\ log[d].op = "submit" /\ log[d].ok
        /\ log[d].id = log[b].id
        /\ {log[a].rec, log[b].rec, log[d].rec} = {log[c].rec}

-----------------------------------------------------------------------------
(* identifySpeakers as a state machine (SpecSpeakers): a transcript is     *)
(* drawn, the generation call answers or fails, the function returns       *)

\* the transcripts have up to MaxSpeakerSegments segments
MaxSpeakerSegments == 3

\* result.speakers has up to MaxSpeakerEntries entries
MaxSpeakerEntries == 2

SpeakerLabels == {"spk_0", "spk_1", "spk_2"}

\* segment n of a transcript lasts from 10 (n - 1) to 10 n
SpeakerTranscripts ==
    UNION {{[n \in 1..len |-> TranscriptSegmentOf(10 * (n - 1), 10 * n, f[n])] :
                f \in [1..len -> SpeakerLabels]} : len \in 0..MaxSpeakerSegments}

SpeakerEntries ==
    {SpeakerOf(id, "Ann", "host") : id \in SpeakerLabels}
        \cup {SpeakerOf(id, "Bob", "guest") : id \in SpeakerLabels}

SpeakerAnswers ==
    {[kind |-> "speakers", speakers |-> p] : p \in SeqsUpTo(SpeakerEntries, MaxSpeakerEntries)}

\* the call throws; the content is empty; JSON.parse throws; the parsed
\* value has no array speakers
SpeakerCallFailures == {[kind |-> k, speakers |-> <<>>] : k \in FailureKinds}

InitSpeakers ==
    /\ pc = "identifySpeakers"
    /\ segments \in SpeakerTranscripts
    /\ response = NoResponse
    /\ chapters = <<>>
    /\ ChunkerIdle
    /\ HandlerIdle
    /\ StagesIdle

\* if (speakerLabels.length === 0) return {}
SpeakersNoLabels ==
    /\ pc = "identifySpeakers"
    /\ speakerLabels(segments) = {}
    /\ speakerData' = identifySpeakers(segments, NoResponse)
    /\ pc' = "speakersReturned"
    /\ UNCHANGED <<chapterVars, chunkVars, handlerVars, allSegments, targets, blocks>>

\* the call answers with content that parses
SpeakersNamed ==
    /\ pc = "identifySpeakers"
    /\ speakerLabels(segments) # {}
    /\ \E r \in SpeakerAnswers :
        /\ response' = r
        /\ speakerData' = identifySpeakers(segments, r)
    /\ pc' = "speakersReturned"
    /\ UNCHANGED <<segments, chapters, chunkVars, handlerVars, allSegments, targets, blocks>>

\* the call fails, or its content is empty or does not parse
SpeakersCallFails ==
    /\ pc = "identifySpeakers"
    /\ speakerLabels(segments) # {}
    /\ \E r \in SpeakerCallFailures :
        /\ response' = r
        /\ speakerData' = identifySpeakers(segments, r)
    /\ pc' = "speakersReturned"
    /\ UNCHANGED <<segments, chapters, chunkVars, handlerVars, allSegments, targets, blocks>>

NextSpeakers == SpeakersNoLabels \/ SpeakersNamed \/ SpeakersCallFails

SpecSpeakers == InitSpeakers /\ [][NextSpeakers]_vars

SpeakersReturned == pc = "speakersReturned"

\* the N of the label spk_N
NumberOfLabel == [l \in SpeakerLabels |-> CASE l = "spk_0" -> "0" [] l = "spk_1" -> "1" [] l = "spk_2" -> "2"]

\* C11: when the speaker generation call fails or yields empty or unparsable
\* content, identifySpeakers returns a map whose keys are exactly the
\* distinct speaker labels of the transcript, with spk_0 mapped to
\* {Host, host} and every other label spk_N to {"Speaker N", unknown}.
C11_SpeakerFallback ==
    (SpeakersReturned /\ response.kind \in FailureKinds) =>
        /\ DOMAIN speakerData = speakerLabels(segments)
        /\ \A l \in speakerLabels(segments) :
            IF l = "spk_0"
            THEN speakerData[l] = [name |-> <<"Host">>, role |-> "host"]
            ELSE speakerData[l] = [name |-> <<"Speaker ", NumberOfLabel[l]>>,
                                   role |-> "unknown"]

\* the call failed on a transcript in which spk_0 and two more speakers talk
C11_Witness ==
    /\ SpeakersReturned
    /\ response.kind \in FailureKinds
    /\ speakerLabels(segments) = SpeakerLabels
    /\ speakerData["spk_2"].role = "unknown"

\* the entries of the answer that are about label l
EntriesFor(l) == {n \in 1..Len(response.speakers) : response.speakers[n].id = l}

\* C12: on a parsable answer the returned map has an entry for every
\* distinct speaker label of the transcript: a label the answer names keeps
\* a name and role the answer gave for it, a label the answer omits gets
\* the name "Speaker <suffix>" and the role unknown.
C12_EveryLabelRepresented ==
    (SpeakersReturned /\ response.kind = "speakers") =>
        \A l \in speakerLabels(segments) :
            /\ l \in DOMAIN speakerData
            /\ IF EntriesFor(l) # {}
               THEN \E n \in EntriesFor(l) :
                        speakerData[l] = [name |-> response.speakers[n].name,
                                          role |-> response.speakers[n].role]
               ELSE speakerData[l] = [name |-> <<"Speaker ", NumberOfLabel[l]>>,
                                      role |-> "unknown"]

\* the answer named one of two speakers, the other one was back-filled
C12_Witness ==
    /\ SpeakersReturned
    /\ response.kind = "speakers"
    /\ Cardinality(speakerLabels(segments)) = 2
    /\ \E l \in speakerLabels(segments) : EntriesFor(l) # {}
    /\ \E l \in speakerLabels(segments) :
        /\ EntriesFor(l) = {}
        /\ speakerData[l].role = "unknown"

-----------------------------------------------------------------------------
(* Handler runs in which only the generation service and the knowledge     *)
(* graph fail (SpecServiceFaults): every fetch and every write to the      *)
(* metadata API succeeds; the event has one record                         *)

\* the generation calls and submits that may fail in such a run
MaxServiceFaults == 4

InitServiceFaults ==
    /\ pc = "handler"
    /\ ChapterPlannerIdle
    /\ ChunkerIdle
    /\ StagesIdle
    /\ inv = [i \in Invocations |-> IF i = "inv1" THEN Invoked(<<"e1">>) ELSE NotInvoked]
    /\ log = <<>>
    /\ budget = [faults |-> MaxServiceFaults, segments |-> MaxSegments]

NextServiceFaults ==
    \E i \in Invocations :
        \/ FetchEpisode(i)
        \/ FetchSeries(i)
        \/ NoAudioMediaId(i)
        \/ FetchTranscript(i)
        \/ IdentifySpeakersNone(i)
        \/ IdentifySpeakers(i)
        \/ IdentifySpeakersFails(i)
        \/ UpdateEpisodeSpeakers(i)
        \/ IdentifyChaptersNone(i)
        \/ IdentifyChapters(i)
        \/ IdentifyChaptersFails(i)
        \/ UpsertChapter(i)
        \/ IdentifySegmentsInChapter(i)
        \/ IdentifySegmentsInChapterFails(i)
        \/ UpsertSegment(i)
        \/ GenerateContextualRetrieval(i)
        \/ GenerateContextualRetrievalFails(i)
        \/ SendToGraphiti(i)
        \/ SendToGraphitiFails(i)
        \/ UpdateEpisodeComplete(i)

SpecServiceFaults == InitServiceFaults /\ [][NextServiceFaults]_vars

GenerationOps == {"llmSpeakers", "llmChapters", "llmSegments", "llmContext"}

\* the requests of invocation i, as positions in the log
RequestsOf(i) == {n \in 1..Len(log) : log[n].inv = i}

\* every request of invocation i that failed went to the generation service
OnlyGenerationFaults(i) ==
    \A n \in RequestsOf(i) : ~log[n].ok => log[n].op \in GenerationOps

\* a request of invocation i set the status failed because of a failure
MarkedFailed(i) ==
    \E n \in RequestsOf(i) :
        log[n].op = "putFailed" /\ log[n].type # "No audio media ID"

\* record r of invocation i got the status complete
MarkedComplete(i, r) ==
    \E n \in RequestsOf(i) :
        log[n].op = "putComplete" /\ log[n].ok /\ log[n].rec = r

\* record r of invocation i was given up for want of an audio reference
WithoutAudio(i, r) ==
    \E n \in RequestsOf(i) :
        log[n].op = "putFailed" /\ log[n].rec = r /\ log[n].type = "No audio media ID"

\* C13: in a run in which only generation calls fail (speakers, chapters,
\* segments of a chapter, context of a segment, in any combination) while
\* every fetch and every write succeeds, no exception reaches the catch of
\* the handler, the status failed is never written, and when the handler
\* returns every record that has an audio reference has the status complete.
C13_GenerationFaultsAbsorbed ==
    \A i \in Invocations :
        OnlyGenerationFaults(i) =>
            /\ inv[i].pc \notin {"catch", "thrown"}
            /\ ~MarkedFailed(i)
            /\ inv[i].pc = "returned" =>
                  \A r \in 1..Len(inv[i].records) :
                      MarkedComplete(i, r) \/ WithoutAudio(i, r)

\* the speaker call, the chapter call, a segment call and a context call
\* failed in one run, and the episode was completed
C13_Witness ==
    /\ inv["inv1"].pc = "returned"
    /\ OnlyGenerationFaults("inv1")
    /\ \A op \in GenerationOps :
        \E n \in RequestsOf("inv1") : log[n].op = op /\ ~log[n].ok
    /\ MarkedComplete("inv1", 1)

\* the submit requests made for segment id of the record in progress
SubmitsFor(i, id) ==
    {n \in RequestsOf(i) :
        log[n].op = "submit" /\ log[n].rec = inv[i].rec /\ log[n].id = id}

\* C15: a submit that fails does not leave the ingestion loop: no exception
\* reaches the catch of the handler and the status failed is not written;
\* when the loop is over a submit was attempted for every segment that is
\* not filtered out, whatever became of the submits before it; and the
\* handler ends the record by writing the status complete, also when every
\* submit failed.
C15_SubmitFaultsSkipped ==
    \A i \in Invocations :
        /\ inv[i].pc \notin {"catch", "thrown"}
        /\ ~MarkedFailed(i)
        /\ inv[i].pc = "updateEpisodeComplete" =>
              \A k \in 1..Len(inv[i].identifiedSegments) :
                  inv[i].identifiedSegments[k].type \notin SKIP_GRAPHITI_TYPES =>
                      SubmitsFor(i, inv[i].identifiedSegments[k].id) # {}
        /\ inv[i].pc = "returned" =>
              \A r \in 1..Len(inv[i].records) :
                  MarkedComplete(i, r) \/ WithoutAudio(i, r)

\* two segments were to be ingested, the submit of the first failed, the
\* second was attempted and failed too, and the episode was completed with
\* no knowledge-graph id
C15_Witness ==
    /\ inv["inv1"].pc = "returned"
    /\ \E a, b, c \in RequestsOf("inv1") :
        /\ a < b /\ b < c
        /\ log[a].op = "submit" /\ ~log[a].ok
        /\ log[b].op = "submit" /\ ~log[b].ok
        /\ log[a].id # log[b].id
        /\ log[c].op = "putComplete" /\ log[c].ok /\ log[c].id = 0
    /\ \A n \in RequestsOf("inv1") : log[n].op = "submit" => ~log[n].ok

-----------------------------------------------------------------------------
(* The catch of the handler (Spec) *)

\* C14: when an exception of a step of the sequence has left the handler,
\* the status failed was written for the episode with the message of that
\* exception, the exception that left is that same exception, and the
\* episode was not marked complete in the run.
C14_FailureReportedAndRethrown ==
    \A i \in Invocations :
        inv[i].pc = "thrown" =>
            /\ \E n \in RequestsOf(i) :
                /\ log[n].op = "putFailed"
                /\ log[n].ok
                /\ log[n].rec = inv[i].rec
                /\ log[n].type = inv[i].error
            /\ ~MarkedComplete(i, inv[i].rec)

WriteOps == {"putSpeakers", "putChapter", "putSegment", "putComplete", "putFailed"}

\* the episode, its series and its audio reference were found for the
\* record of request n before that request: the handler asks for the
\* transcript exactly then
UpstreamFoundBefore(n) ==
    \E m \in 1..(n - 1) :
        /\ log[m].op = "getTranscript"
        /\ log[m].inv = log[n].inv
        /\ log[m].rec = log[n].rec

\* C16: a record whose episode, series or audio reference is not found
\* causes no write to the metadata API (no status, speakers, chapter or
\* segment write): every write belongs to a record for which all three
\* were found.
C16_NoWriteWhenUpstreamMissing ==
    \A n \in 1..Len(log) :
        log[n].op \in WriteOps => UpstreamFoundBefore(n)

-----------------------------------------------------------------------------
(* The order of the stages (Spec) *)

\* a request before request n, for the same record of the same invocation,
\* performed the write op about id with success
SavedBefore(n, op, id) ==
    \E m \in 1..(n - 1) :
        /\ log[m].op = op
        /\ log[m].ok
        /\ log[m].inv = log[n].inv
        /\ log[m].rec = log[n].rec
        /\ log[m].id = id

\* the same, the write having been requested, whatever its outcome
RequestedBefore(n, op, id) ==
    \E m \in 1..(n - 1) :
        /\ log[m].op = op
        /\ log[m].inv = log[n].inv
        /\ log[m].rec = log[n].rec
        /\ log[m].id = id

\* the output of each stage is saved (Saved = SavedBefore) or its write has
\* at least been requested (Saved = RequestedBefore) before the next stage
StagesInOrder(Saved(_, _, _)) ==
    /\ \A n \in 1..Len(log) :
        /\ log[n].op = "llmChapters" => Saved(n, "putSpeakers", 0)
        /\ log[n].op = "llmSegments" => Saved(n, "putChapter", log[n].id)
        /\ log[n].op \in IngestOps => Saved(n, "putSegment", log[n].id)
        /\ log[n].op = "putComplete" =>
              \A m \in 1..Len(log) :
                  (log[m].op = "submit" /\ log[m].inv = log[n].inv
                      /\ log[m].rec = log[n].rec) => m < n
    /\ \A i \in Invocations :
        /\ inv[i].pc = "identifySegments" =>
              \A k \in 1..Len(inv[i].chapters) :
                  \E m \in RequestsOf(i) :
                      /\ log[m].op = "putChapter" /\ log[m].ok
                      /\ log[m].rec = inv[i].rec
                      /\ log[m].id = inv[i].chapters[k].id
        /\ inv[i].pc \in IngestPcs =>
              \A k \in 1..Len(inv[i].identifiedSegments) :
                  \E m \in RequestsOf(i) :
                      /\ log[m].op = "putSegment" /\ log[m].ok
                      /\ log[m].rec = inv[i].rec
                      /\ log[m].id = inv[i].identifiedSegments[k].id

\* C17: in every run the speaker map is saved before the chapter
\* generation call is issued, every chapter is saved before any segment
\* generation call, every segment is saved before any context-generation
\* or submit call, and the status complete is written after the last
\* submit.
C17_StagesPersistedInOrder == StagesInOrder(SavedBefore)

\* the same with "the write was requested" in the place of "saved"
C17_StagesRequestedInOrder == StagesInOrder(RequestedBefore)

-----------------------------------------------------------------------------
(* identifySegments as a state machine (SpecSegments): a transcript and a  *)
(* list of chapters are drawn; for each chapter in turn the generation     *)
(* call answers or fails; the function returns allSegments.  response      *)
(* holds the outcomes of the calls made so far, one per chapter.           *)

\* result.segments of an answer has up to MaxProposedSegments entries
MaxProposedSegments == 1

\* the times an answer may propose
SegmentTimes == {0, 5, 10, 15, 25}

ChapterOf(id, type, s, e) ==
    [id |-> id, type |-> type, episodeStartSec |-> s, episodeEndSec |-> e]

\* no chapter, one chapter, or two contiguous chapters
SegmentChapterLists ==
    { <<>>,
      <<ChapterOf(1, "section", 0, 10)>>,
      <<ChapterOf(1, "introduction", 0, 10), ChapterOf(2, "section", 10, 20)>> }

SegmentTranscripts ==
    { <<>>,
      <<TranscriptSegmentOf(0, 10, "spk_0"), TranscriptSegmentOf(10, 20, "spk_1")>> }

SegmentAnswers ==
    {[kind |-> "segments", segments |-> p] :
        p \in SeqsUpTo([type : {"analysis"}, start_sec : SegmentTimes,
                        end_sec : SegmentTimes], MaxProposedSegments)}

\* the call throws; the content is empty; JSON.parse throws; the parsed
\* value has no array segments
SegmentCallFailures == {[kind |-> k, segments |-> <<>>] : k \in FailureKinds}

InitSegments ==
    /\ pc = "identifySegments"
    /\ segments \in SegmentTranscripts
    /\ chapters \in SegmentChapterLists
    /\ response = <<>>
    /\ ChunkerIdle
    /\ HandlerIdle
    /\ StagesIdle

\* if (transcriptSegments.length === 0 || chapters.length === 0) return []
SegmentsNothingToDo ==
    /\ pc = "identifySegments"
    /\ Len(segments) = 0 \/ Len(chapters) = 0
    /\ allSegments' = <<>>
    /\ pc' = "segmentsReturned"
    /\ UNCHANGED <<chapterVars, chunkVars, handlerVars, speakerData, targets, blocks>>

\* allSegments after the turn of the loop for the next chapter, the call
\* having had the outcome r
allSegmentsAfter(r) ==
    LET chapter == chapters[Len(response) + 1]
    IN allSegments \o segmentsOfChapter(chapter, identifySegmentsInChapter(chapter, r),
                                        Len(allSegments) + 1)

\* a turn of the loop: the call answers with content that parses
SegmentsProposed ==
    /\ pc = "identifySegments"
    /\ Len(segments) > 0
    /\ Len(response) < Len(chapters)
    /\ \E r \in SegmentAnswers :
        /\ allSegments' = allSegmentsAfter(r)
        /\ response' = Append(response, r)
    /\ UNCHANGED <<pc, segments, chapters, chunkVars, handlerVars, speakerData, targets, blocks>>

\* a turn of the loop: the call fails, or its content is empty or does not
\* parse
SegmentsCallFails ==
    /\ pc = "identifySegments"
    /\ Len(segments) > 0
    /\ Len(response) < Len(chapters)
    /\ \E r \in SegmentCallFailures :
        /\ allSegments' = allSegmentsAfter(r)
        /\ response' = Append(response, r)
    /\ UNCHANGED <<pc, segments, chapters, chunkVars, handlerVars, speakerData, targets, blocks>>

\* return allSegments
SegmentsReturn ==
    /\ pc = "identifySegments"
    /\ Len(segments) > 0
    /\ Len(chapters) > 0
    /\ Len(response) = Len(chapters)
    /\ pc' = "segmentsReturned"
    /\ UNCHANGED <<chapterVars, chunkVars, handlerVars, stageVars>>

NextSegments ==
    SegmentsNothingToDo \/ SegmentsProposed \/ SegmentsCallFails \/ SegmentsReturn

SpecSegments == InitSegments /\ [][NextSegments]_vars

\* the chapters whose id a segment carries
ChaptersOf(seg) == {k \in 1..Len(chapters) : chapters[k].id = seg.chapterId}

\* C18: every accepted segment lies inside the bounds of its chapter:
\* chapter.startSec <= segment.startSec <= segment.endSec <= chapter.endSec,
\* whatever boundaries the generation service proposed.
C18_SegmentInsideChapter ==
    \A n \in 1..Len(allSegments) :
        \A k \in ChaptersOf(allSegments[n]) :
            /\ chapters[k].episodeStartSec <= allSegments[n].episodeStartSec
            /\ allSegments[n].episodeStartSec <= allSegments[n].episodeEndSec
            /\ allSegments[n].episodeEndSec <= chapters[k].episodeEndSec

\* the segments of allSegments that carry the id of chapter k, in order and
\* without their own ids
SegmentsIn(k) ==
    LET own == SelectSeq(allSegments, LAMBDA seg : seg.chapterId = chapters[k].id)
    IN [n \in 1..Len(own) |->
            [type |-> own[n].type, episodeStartSec |-> own[n].episodeStartSec,
             episodeEndSec |-> own[n].episodeEndSec]]

\* what the answer r for chapter k is to yield on its own
SegmentsDueFor(k, r) ==
    IF r.kind \in FailureKinds THEN <<>>
    ELSE [n \in 1..Len(r.segments) |->
            [type |-> r.segments[n].type,
             episodeStartSec |-> Max(chapters[k].episodeStartSec, r.segments[n].start_sec),
             episodeEndSec |-> Min(chapters[k].episodeEndSec, r.segments[n].end_sec)]]

\* C19: a chapter whose segment generation call fails or yields empty or
\* unparsable content contributes no segment, and every chapter contributes
\* exactly the segments of its own answer, whatever became of the calls for
\* the other chapters; identifySegments returns.
C19_FailedChapterContributesNothing ==
    /\ \A k \in 1..Len(response) : SegmentsIn(k) = SegmentsDueFor(k, response[k])
    /\ (pc = "segmentsReturned" /\ Len(segments) > 0) => Len(response) = Len(chapters)

\* the call for the first of two chapters failed, the call for the second
\* was answered with a segment, and that segment is all that was returned
C19_Witness ==
    /\ pc = "segmentsReturned"
    /\ Len(chapters) = 2
    /\ Len(response) = 2
    /\ response[1].kind \in FailureKinds
    /\ Len(response[2].segments) = 1
    /\ Len(allSegments) = 1
    /\ allSegments[1].chapterId = chapters[2].id

\* C20: every returned segment carries the id of exactly one chapter, and
\* that chapter contains the midpoint of the segment:
\* chapter.startSec <= (segment.startSec + segment.endSec) / 2 < chapter.endSec.
C20_ChapterByMidpoint ==
    \A n \in 1..Len(allSegments) :
        /\ Cardinality(ChaptersOf(allSegments[n])) = 1
        /\ \A k \in ChaptersOf(allSegments[n]) :
            /\ 2 * chapters[k].episodeStartSec
                  <= allSegments[n].episodeStartSec + allSegments[n].episodeEndSec
            /\ allSegments[n].episodeStartSec + allSegments[n].episodeEndSec
                  < 2 * chapters[k].episodeEndSec

-----------------------------------------------------------------------------
(* The segment targets of identifySegments (SpecSegmentTargets): an        *)
(* episode and its chapters are drawn; the loop over the chapters computes *)
(* the target it passes to the generation call for each chapter            *)

\* Math.round(num / den) for den > 0: the nearest integer, halves upwards
Round(num, den) == (2 * num + den) \div (2 * den)

\* Math.max(20, Math.min(60, Math.round(durationHours * 40)))
totalTargetSegments(segs) ==
    Max(20, Min(60, Round(episodeDuration(segs) * 40, 3600)))

\* the target with Math.floor in the place of Math.round
chapterTargetSegmentsFloored(chapter, segs) ==
    Max(1, ((chapter.episodeEndSec - chapter.episodeStartSec) * totalTargetSegments(segs))
               \div episodeDuration(segs))

\* Math.max(1, Math.round((chapterDuration / episodeDuration) * totalTargetSegments))
chapterTargetSegments(chapter, segs) ==
    Max(1, Round((chapter.episodeEndSec - chapter.episodeStartSec) * totalTargetSegments(segs),
                 episodeDuration(segs)))

\* an episode has up to MaxTargetChapters chapters
MaxTargetChapters == 3

\* episodes of 10, 45, 60, 90 and 120 minutes
TargetDurations == {600, 2700, 3600, 5400, 7200}

\* chapter boundaries, in sixtieths of the episode
TargetTicks == {0, 1, 10, 20, 30, 50, 60}

\* the lists of n consecutive chapters with boundaries on TargetTicks
TargetChapterLists(d, n) ==
    {[k \in 1..n |-> ChapterOf(k, "section", (d * b[k]) \div 60, (d * b[k + 1]) \div 60)] :
        b \in {c \in [1..(n + 1) -> TargetTicks] : \A k \in 1..n : c[k] < c[k + 1]}}

InitSegmentTargets ==
    /\ pc = "identifySegments"
    /\ \E d \in TargetDurations :
        /\ segments = <<TranscriptSegmentOf(0, d, "spk_0")>>
        /\ \E n \in 1..MaxTargetChapters : chapters \in TargetChapterLists(d, n)
    /\ response = NoResponse
    /\ ChunkerIdle
    /\ HandlerIdle
    /\ StagesIdle

\* a turn of the loop over the chapters, as far as the target
TargetComputed ==
    /\ pc = "identifySegments"
    /\ Len(targets) < Len(chapters)
    /\ targets' = Append(targets, chapterTargetSegments(chapters[Len(targets) + 1], segments))
    /\ UNCHANGED <<pc, chapterVars, chunkVars, handlerVars, speakerData, allSegments, blocks>>

\* the loop is over
TargetsDone ==
    /\ pc = "identifySegments"
    /\ Len(targets) = Len(chapters)
    /\ pc' = "segmentsReturned"
    /\ UNCHANGED <<chapterVars, chunkVars, handlerVars, stageVars>>

NextSegmentTargets == TargetComputed \/ TargetsDone

SpecSegmentTargets == InitSegmentTargets /\ [][NextSegmentTargets]_vars

\* r is the share of a chapter of duration c in total segments of an episode
\* of duration d, rounded to the nearest integer, halves upwards
RoundedShare(r, c, d, total) ==
    /\ 2 * d * r <= 2 * c * total + d
    /\ 2 * c * total + d < 2 * d * (r + 1)

\* C21: the target passed for a chapter is max(1, round((chapterDuration /
\* episodeDuration) * totalTarget)): it is at least 1 and depends on that
\* chapter alone; for a 60-minute episode with chapters of 10, 20 and 30
\* minutes (total target 40) the targets are 7, 13 and 20.
C21_ProportionalTargets ==
    /\ \A k \in 1..Len(targets) :
        LET c == chapters[k].episodeEndSec - chapters[k].episodeStartSec
            d == episodeDuration(segments)
        IN /\ targets[k] >= 1
           /\ \E r \in 0..60 :
               /\ RoundedShare(r, c, d, totalTargetSegments(segments))
               /\ targets[k] = IF r < 1 THEN 1 ELSE r
    /\ ( /\ pc = "segmentsReturned"
         /\ episodeDuration(segments) = 3600
         /\ [k \in 1..Len(chapters) |-> chapters[k].episodeEndSec - chapters[k].episodeStartSec]
                = <<600, 1200, 1800>> )
       => (totalTargetSegments(segments) = 40 /\ targets = <<7, 13, 20>>)

\* the targets of the 60-minute episode with chapters of 10, 20 and 30
\* minutes were computed
C21_Witness ==
    /\ pc = "segmentsReturned"
    /\ episodeDuration(segments) = 3600
    /\ [k \in 1..Len(chapters) |-> chapters[k].episodeEndSec - chapters[k].episodeStartSec]
           = <<600, 1200, 1800>>
    /\ Len(targets) = 3

-----------------------------------------------------------------------------
(* chunkBySpeaker of the transcript ingestion handler (unnamed/part_000),  *)
(* and SpecBlocks: a transcript is drawn and grouped into chunks.  A text  *)
(* is the sequence of its characters.                                      *)

\* MAX_CHUNK_CHARS is 4000 in the source; the model scales it down
MAX_CHUNK_CHARS == 20

\* a transcript has up to MaxBlockSegments segments
MaxBlockSegments == 4

\* the characters of a speaker label
LabelText(label) ==
    CASE label = "spk_0" -> <<"s", "p", "k", "_", "0">>
      [] label = "spk_1" -> <<"s", "p", "k", "_", "1">>
      [] label = "spk_2" -> <<"s", "p", "k", "_", "2">>

\* `${segment.speaker_label}: ${segment.transcript}`
segmentText(segment) == LabelText(segment.speaker_label) \o <<":", " ">> \o segment.transcript

\* the chunk started with a segment
NewChunk(segment) ==
    [speakerLabel |-> segment.speaker_label,
     lines |-> <<segment>>,
     startTime |-> segment.start_time,
     endTime |-> segment.end_time,
     text |-> segmentText(segment)]

\* the chunk after a segment was added to it
ExtendedChunk(chunk, segment) ==
    [chunk EXCEPT !.lines = Append(@, segment),
                  !.endTime = segment.end_time,
                  !.text = @ \o <<"\n">> \o segmentText(segment)]

\* the body of the loop for one segment; st.current holds currentChunk, or
\* nothing for null
chunkBySpeakerStep(st, segment) ==
    IF \/ Len(st.current) = 0
       \/ st.current[1].speakerLabel # segment.speaker_label
       \/ Len(st.current[1].text) + Len(segmentText(segment)) > MAX_CHUNK_CHARS
    THEN [chunks |-> st.chunks \o st.current, current |-> <<NewChunk(segment)>>]
    ELSE [chunks |-> st.chunks, current |-> <<ExtendedChunk(st.current[1], segment)>>]

\* for (const segment of segments), from segment i on
RECURSIVE chunkBySpeakerLoop(_, _, _)
chunkBySpeakerLoop(segs, i, st) ==
    IF i > Len(segs) THEN st
    ELSE chunkBySpeakerLoop(segs, i + 1, chunkBySpeakerStep(st, segs[i]))

\* chunkBySpeaker without the push of the last chunk after the loop
chunkBySpeakerForgetsLast(segs) ==
    chunkBySpeakerLoop(segs, 1, [chunks |-> <<>>, current |-> <<>>]).chunks

chunkBySpeaker(segs) ==
    LET st == chunkBySpeakerLoop(segs, 1, [chunks |-> <<>>, current |-> <<>>])
    IN st.chunks \o st.current

\* the lengths of the transcript of a segment: with the label and ": " they
\* make texts of 8, 10 and 21 characters
BlockTextLengths == {1, 3, 14}

BlockSegmentOf(n, label, len) ==
    [id |-> n, start_time |-> 10 * (n - 1), end_time |-> 10 * n,
     transcript |-> [c \in 1..len |-> "a"], speaker_label |-> label]

\* ordered transcripts: segment n lasts from 10 (n - 1) to 10 n
BlockTranscripts ==
    UNION {{[n \in 1..len |-> BlockSegmentOf(n, f[n][1], f[n][2])] :
                f \in [1..len -> {"spk_0", "spk_1"} \X BlockTextLengths]} :
           len \in 0..MaxBlockSegments}

InitBlocks ==
    /\ pc = "chunkBySpeaker"
    /\ segments \in BlockTranscripts
    /\ response = NoResponse
    /\ chapters = <<>>
    /\ ChunkerIdle
    /\ HandlerIdle
    /\ StagesIdle

\* const chunks = chunkBySpeaker(segments)
BlocksChunked ==
    /\ pc = "chunkBySpeaker"
    /\ blocks' = chunkBySpeaker(segments)
    /\ pc' = "blocksReturned"
    /\ UNCHANGED <<chapterVars, chunkVars, handlerVars, speakerData, allSegments, targets>>

NextBlocks == BlocksChunked

SpecBlocks == InitBlocks /\ [][NextBlocks]_vars

\* C22: every block holds segments of a single speaker label, and the text
\* of every block is within MAX_CHUNK_CHARS unless the block consists of a
\* single segment.
C22_BlocksWithinBudget ==
    \A b \in 1..Len(blocks) :
        /\ \A n \in 1..Len(blocks[b].lines) :
            blocks[b].lines[n].speaker_label = blocks[b].speakerLabel
        /\ Len(blocks[b].text) <= MAX_CHUNK_CHARS \/ Len(blocks[b].lines) = 1

\* the segment lists of blocks b.., one after the other
RECURSIVE LinesFrom(_)
LinesFrom(b) == IF b > Len(blocks) THEN <<>> ELSE blocks[b].lines \o LinesFrom(b + 1)

\* the texts of lines n.. of a block, joined by newlines
RECURSIVE JoinedFrom(_, _)
JoinedFrom(lines, n) ==
    IF n > Len(lines) THEN <<>>
    ELSE IF n = Len(lines) THEN segmentText(lines[n])
    ELSE segmentText(lines[n]) \o <<"\n">> \o JoinedFrom(lines, n + 1)

\* C23: the blocks partition the transcript: their segment lists, one after
\* the other, are the input sequence; no block is empty; the start of a
\* block is the start of its first segment and its end the end of its last
\* segment; its text is the untruncated texts of its segments joined by
\* newlines.
C23_BlocksPartitionInput ==
    pc = "blocksReturned" =>
        /\ LinesFrom(1) = segments
        /\ \A b \in 1..Len(blocks) :
            /\ Len(blocks[b].lines) >= 1
            /\ blocks[b].startTime = blocks[b].lines[1].start_time
            /\ blocks[b].endTime = blocks[b].lines[Len(blocks[b].lines)].end_time
            /\ blocks[b].text = JoinedFrom(blocks[b].lines, 1)

\* a block of several segments was followed by a segment that is over the
\* budget on its own and forms a block alone
C23_Witness ==
    /\ pc = "blocksReturned"
    /\ \E b \in 1..(Len(blocks) - 1) :
        /\ Len(blocks[b].lines) >= 2
        /\ blocks[b + 1].speakerLabel = blocks[b].speakerLabel
        /\ Len(blocks[b + 1].lines) = 1
        /\ Len(blocks[b + 1].text) > MAX_CHUNK_CHARS

-----------------------------------------------------------------------------
(* The ids collected by ingestion (SpecServiceFaults) *)

\* the submits of the record of request n that succeeded before request n;
\* the id a submit returned is the position of its request
SubmittedBefore(n) ==
    {m \in 1..(n - 1) :
        /\ log[m].op = "submit" /\ log[m].ok
        /\ log[m].inv = log[n].inv /\ log[m].rec = log[n].rec}

\* C24: the id list written with the status complete holds exactly the ids
\* of the submits of the record that succeeded, each once, in the order of
\* submission; submits are made in segment order and, within a segment, in
\* chunk order; after a submit of a chunk failed no further chunk of that
\* segment is submitted, while the ids of its earlier chunks stay in the
\* list.
C24_IdsOfSuccessfulSubmits ==
    \A n \in 1..Len(log) :
        /\ log[n].op = "putComplete" =>
            /\ Range(log[n].ids) = SubmittedBefore(n)
            /\ \A a, b \in 1..Len(log[n].ids) : a < b => log[n].ids[a] < log[n].ids[b]
        /\ log[n].op = "submit" =>
              \A m \in 1..(n - 1) :
                  (log[m].op = "submit" /\ log[m].inv = log[n].inv
                      /\ log[m].rec = log[n].rec) =>
                      /\ log[m].id <= log[n].id
                      /\ log[m].id = log[n].id => (log[m].ok /\ log[m].chunk < log[n].chunk)

\* the first chunk of a segment was submitted, the second failed, and the
\* status complete was written with the id of the first alone
C24_Witness ==
    \E a, b, c \in 1..Len(log) :
        /\ a < b /\ b < c
        /\ log[a].op = "submit" /\ log[a].ok /\ log[a].chunk = 0
        /\ log[b].op = "submit" /\ ~log[b].ok /\ log[b].chunk = 1
        /\ log[b].id = log[a].id
        /\ log[c].op = "putComplete" /\ log[c].ok
        /\ log[c].ids = <<a>>

-----------------------------------------------------------------------------
(* No call is repeated within a run *)

\* the calls that a run makes once, or once per chapter, segment or chunk
OnceOps ==
    {"llmSpeakers", "llmChapters", "llmSegments", "llmContext",
     "putChapter", "putSegment", "submit"}

\* requests m and n belong to the same run and are the same call: the same
\* operation for the same chapter or segment and the same chunk
SameCall(m, n) ==
    /\ log[m].inv = log[n].inv /\ log[m].rec = log[n].rec
    /\ log[m].op = log[n].op
    /\ log[m].id = log[n].id
    /\ log[m].chunk = log[n].chunk

\* C25: within one run no call is made twice, whatever its outcome: the
\* generation service is asked at most once for the speakers, once for the
\* chapters, once per chapter for its segments and once per segment for its
\* context, and never for the context of a segment of a filtered type; each
\* chapter, each segment and each chunk is sent at most once.
C25_NoCallRepeated ==
    \A n \in 1..Len(log) :
        /\ log[n].op \in OnceOps =>
              \A m \in 1..(n - 1) : ~SameCall(m, n)
        /\ log[n].op = "llmContext" => log[n].type \notin SKIP_GRAPHITI_TYPES

\* a call for the context of a segment failed and the run went on to the
\* submission of that segment
C25_Witness ==
    \E m, n \in 1..Len(log) :
        /\ m < n
        /\ log[m].op = "llmContext" /\ ~log[m].ok
        /\ log[n].op = "submit"
        /\ log[n].inv = log[m].inv /\ log[n].rec = log[m].rec
        /\ log[n].id = log[m].id

-----------------------------------------------------------------------------
(* A chapter that cannot be saved (Spec) *)

\* request m belongs to the same run as request n
SameRun(m, n) == log[m].inv = log[n].inv /\ log[m].rec = log[n].rec

\* the chapters are saved one after the other in the order of the list:
\* before request n, a putChapter, the chapters before its own were saved
\* and no other; once a putChapter has failed the run saves no further
\* chapter and no segment
ChaptersSavedUpToFailure ==
    \A n \in 1..Len(log) :
        log[n].op = "putChapter" =>
            /\ {log[m].id : m \in {m \in 1..(n - 1) :
                    SameRun(m, n) /\ log[m].op = "putChapter" /\ log[m].ok}}
                 = 1..(log[n].id - 1)
            /\ ~log[n].ok =>
                  \A m \in (n + 1)..Len(log) :
                      SameRun(m, n) => log[m].op \notin {"putChapter", "putSegment"}

\* C26: chapters are saved one at a time in chapter order; when the save of
\* the k-th chapter fails, chapters 1..k-1 stay saved, no later chapter and
\* no segment is saved, and, once the failure has left the handler, the
\* status failed was written for the episode.
C26_ChapterFailureMarksFailed ==
    /\ ChaptersSavedUpToFailure
    /\ \A n \in 1..Len(log) :
          (log[n].op = "putChapter" /\ ~log[n].ok /\ inv[log[n].inv].pc = "thrown") =>
              \E m \in (n + 1)..Len(log) :
                  SameRun(m, n) /\ log[m].op = "putFailed" /\ log[m].ok

\* the save of the second chapter failed after the first was saved, and
\* the failure has left the handler
C26_SecondChapterFailed ==
    \E a, b \in 1..Len(log) :
        /\ a < b /\ SameRun(a, b)
        /\ log[a].op = "putChapter" /\ log[a].ok /\ log[a].id = 1
        /\ log[b].op = "putChapter" /\ ~log[b].ok /\ log[b].id = 2
        /\ inv[log[b].inv].pc = "thrown"

-----------------------------------------------------------------------------
(* The order of the repaired chapter list: proposals of up to four chapters *)
(* on a coarse grid of times                                               *)

MaxOrderChapters == 4

OrderTimes == {0, 10, 20}

OrderProposals ==
    {[kind |-> "chapters", chapters |-> p] :
        p \in SeqsUpTo([type : {"section"}, start_sec : OrderTimes, end_sec : OrderTimes],
                       MaxOrderChapters)}

InitChapterOrder ==
    /\ pc = "identifyChapters"
    /\ segments \in TranscriptsOf(20)
    /\ response = NoResponse
    /\ chapters = <<>>
    /\ ChunkerIdle
    /\ HandlerIdle
    /\ StagesIdle

\* the generation call answers with a chapter list
ChaptersProposedAtLength ==
    /\ pc = "identifyChapters"
    /\ \E r \in OrderProposals :
        /\ response' = r
        /\ chapters' = identifyChapters(segments, r)
    /\ pc' = "chaptersReturned"
    /\ UNCHANGED <<segments, chunkVars, handlerVars, stageVars>>

NextChapterOrder == ChaptersProposedAtLength \/ ChaptersCallFails

SpecChapterOrder == InitChapterOrder /\ [][NextChapterOrder]_vars

\* C27: the chapter list that the repair returns is sorted ascending by
\* start time.
C27_RepairedSortedByStart ==
    Repaired =>
        \A i \in 2..Len(chapters) :
            chapters[i - 1].episodeStartSec <= chapters[i].episodeStartSec

-----------------------------------------------------------------------------
(* The types of the speaker map: answers that parse but whose entries are  *)
(* not of the declared types                                               *)

\* JSON null: a value that is not a sequence of characters
JsonNull == [n \in {0} |-> "null"]

IsString(v) == 0 \notin DOMAIN v

\* role: 'host' | 'guest' | 'unknown'
SpeakerRoles == {"host", "guest", "unknown"}

\* entries of a parsed answer: JSON.parse checks neither the name nor the
\* role
ParsedSpeakerEntries ==
    {[id |-> id, name |-> name, role |-> role] :
        id \in SpeakerLabels, name \in {<<"Ann">>, JsonNull}, role \in {"host", "co-host"}}

ParsedSpeakerAnswers ==
    {[kind |-> "speakers", speakers |-> p] :
        p \in SeqsUpTo(ParsedSpeakerEntries, MaxSpeakerEntries)}

\* the call answers with content that parses
SpeakersParsed ==
    /\ pc = "identifySpeakers"
    /\ speakerLabels(segments) # {}
    /\ \E r \in ParsedSpeakerAnswers :
        /\ response' = r
        /\ speakerData' = identifySpeakers(segments, r)
    /\ pc' = "speakersReturned"
    /\ UNCHANGED <<segments, chapters, chunkVars, handlerVars, allSegments, targets, blocks>>

NextSpeakerTypes == SpeakersNoLabels \/ SpeakersParsed \/ SpeakersCallFails

SpecSpeakerTypes == InitSpeakers /\ [][NextSpeakerTypes]_vars

\* C28: every entry of the speaker map that identifySpeakers returns has a
\* role among host, guest and unknown and a name that is a string and not
\* null, whatever the call yielded.
C28_SpeakerMapWellTyped ==
    SpeakersReturned =>
        \A l \in DOMAIN speakerData :
            /\ speakerData[l].role \in SpeakerRoles
            /\ IsString(speakerData[l].name)

\* the map is well-typed whenever the call failed or the transcript has no
\* speaker: the defaults are of the declared types
SpeakerDefaultsWellTyped ==
    (SpeakersReturned /\ response.kind # "speakers") =>
        \A l \in DOMAIN speakerData :
            /\ speakerData[l].role \in SpeakerRoles
            /\ IsString(speakerData[l].name)

-----------------------------------------------------------------------------
(* identify-segments.ts: the Segment objects that identifySegments returns, *)
(* with their metrics and their transcript excerpt                         *)

MaxExcerptSegments == 3

\* the texts of array parts, joined by sep
RECURSIVE Joined(_, _)
Joined(parts, sep) ==
    IF parts = <<>> THEN <<>>
    ELSE IF Len(parts) = 1 THEN parts[1]
    ELSE parts[1] \o sep \o Joined(Tail(parts), sep)

\* speakerData[s.speaker_label]?.name || s.speaker_label: the label when
\* the map has no entry for it or the name is empty
speakerName(s, sd) ==
    IF s.speaker_label \in DOMAIN sd /\ sd[s.speaker_label].name # <<>>
    THEN sd[s.speaker_label].name
    ELSE LabelText(s.speaker_label)

\* `[${speakerName}] ${s.transcript}`
excerptLine(s, sd) == <<"[">> \o speakerName(s, sd) \o <<"]", " ">> \o s.transcript

\* getTranscriptForRange with the test of buildChapterTranscript: the
\* segments that start within the range
getTranscriptForRangeByStart(segs, startSec, endSec, sd) ==
    LET kept == SelectSeq(segs, LAMBDA s : s.start_time >= startSec /\ s.start_time < endSec)
    IN Joined([n \in 1..Len(kept) |-> excerptLine(kept[n], sd)], <<" ">>)

\* segments.filter(...).map(...).join(' ')
getTranscriptForRange(segs, startSec, endSec, sd) ==
    LET kept == SelectSeq(segs, LAMBDA s : s.start_time >= startSec /\ s.end_time <= endSec)
    IN Joined([n \in 1..Len(kept) |-> excerptLine(kept[n], sd)], <<" ">>)

\* transcriptExcerpt ? {content: transcriptExcerpt} : null, null being the
\* empty sequence and the object a sequence of one
transcriptExcerptOf(text) == IF text # <<>> THEN <<[content |-> text]>> ELSE <<>>

\* the five metrics of a proposal, copied as they are
metricsOf(s) ==
    [lucidity |-> s.lucidity, polarity |-> s.polarity, arousal |-> s.arousal,
     subjectivity |-> s.subjectivity, humor |-> s.humor]

\* identifySegmentsInChapter, the whole objects of result.segments.map(...)
identifySegmentsInChapterScored(chapter, resp) ==
    LET found == identifySegmentsInChapter(chapter, resp)
    IN [n \in 1..Len(found) |-> found[n] @@ metricsOf(resp.segments[n])]

\* identifySegments: the whole Segment objects pushed for one chapter
segmentsPushed(chapter, chapterSegments, firstId, transcriptSegments, sd) ==
    LET pushed == segmentsOfChapter(chapter, chapterSegments, firstId)
    IN [n \in 1..Len(pushed) |->
           pushed[n] @@ metricsOf(chapterSegments[n])
             @@ [transcriptExcerpt |->
                    transcriptExcerptOf(
                        getTranscriptForRange(transcriptSegments,
                                              chapterSegments[n].episodeStartSec,
                                              chapterSegments[n].episodeEndSec, sd))]]

\* raw segment n lasts from 5 (n - 1) to 5 n
ExcerptSegmentOf(n, label, text) ==
    [start_time |-> 5 * (n - 1), end_time |-> 5 * n, speaker_label |-> label,
     transcript |-> text]

ExcerptTranscripts ==
    UNION {{[n \in 1..len |-> ExcerptSegmentOf(n, f[n][1], f[n][2])] :
                f \in [1..len -> {"spk_0", "spk_1"} \X {<<>>, <<"a">>}]} :
           len \in 1..MaxExcerptSegments}

\* no entry, an entry with a name, an entry with an empty name
ExcerptSpeakerMaps ==
    { <<>>,
      [spk_0 |-> [name |-> <<"A", "n", "n">>, role |-> "host"]],
      [spk_0 |-> [name |-> <<>>, role |-> "host"]] }

\* what the service may give as metrics: values within the ranges, at
\* their ends, above and below them
ProposedMetrics ==
    { [lucidity |-> 3, polarity |-> -2, arousal |-> 1, subjectivity |-> 4, humor |-> 0],
      [lucidity |-> 5, polarity |-> -5, arousal |-> 0, subjectivity |-> 5, humor |-> 5],
      [lucidity |-> 7, polarity |-> 9, arousal |-> 3, subjectivity |-> 3, humor |-> 3],
      [lucidity |-> 3, polarity |-> -9, arousal |-> 3, subjectivity |-> 3, humor |-> -1] }

\* the bounds an answer may propose, on and off the bounds of the raw segments
ExcerptTimes == {0, 3, 5, 10, 15}

\* answers of one segment
ScoredAnswers ==
    {[kind |-> "segments",
      segments |-> <<[type |-> "analysis", start_sec |-> s, end_sec |-> e] @@ m>>] :
        s \in ExcerptTimes, e \in ExcerptTimes, m \in ProposedMetrics}

InitSegmentRecords ==
    /\ pc = "identifySegments"
    /\ segments \in ExcerptTranscripts
    /\ chapters = <<ChapterOf(1, "section", 0, 5 * Len(segments))>>
    /\ response = <<>>
    /\ ChunkerIdle
    /\ HandlerIdle
    /\ speakerData \in ExcerptSpeakerMaps
    /\ allSegments = <<>>
    /\ targets = <<>>
    /\ blocks = <<>>

\* a turn of the loop: the call answers with content that parses
SegmentRecordsProposed ==
    /\ pc = "identifySegments"
    /\ Len(response) < Len(chapters)
    /\ \E r \in ScoredAnswers :
        LET chapter == chapters[Len(response) + 1]
        IN /\ allSegments' = allSegments \o
                  segmentsPushed(chapter, identifySegmentsInChapterScored(chapter, r),
                                 Len(allSegments) + 1, segments, speakerData)
           /\ response' = Append(response, r)
    /\ UNCHANGED <<pc, segments, chapters, chunkVars, handlerVars, speakerData, targets, blocks>>

\* a turn of the loop: the call fails, or its content is empty or does not
\* parse
SegmentRecordsCallFails ==
    /\ pc = "identifySegments"
    /\ Len(response) < Len(chapters)
    /\ \E r \in SegmentCallFailures : response' = Append(response, r)
    /\ UNCHANGED <<pc, segments, chapters, chunkVars, handlerVars, stageVars>>

\* return allSegments
SegmentRecordsReturn ==
    /\ pc = "identifySegments"
    /\ Len(response) = Len(chapters)
    /\ pc' = "segmentsReturned"
    /\ UNCHANGED <<chapterVars, chunkVars, handlerVars, stageVars>>

NextSegmentRecords ==
    SegmentRecordsProposed \/ SegmentRecordsCallFails \/ SegmentRecordsReturn

SpecSegmentRecords == InitSegmentRecords /\ [][NextSegmentRecords]_vars

\* the raw transcript segments that fall within the bounds of seg
Within(seg) ==
    {i \in 1..Len(segments) :
        /\ segments[i].start_time >= seg.episodeStartSec
        /\ segments[i].end_time <= seg.episodeEndSec}

\* the name under which the speaker of raw segment i appears
LabelOf(i) ==
    LET l == segments[i].speaker_label
    IN IF l \in DOMAIN speakerData /\ Len(speakerData[l].name) > 0
       THEN speakerData[l].name
       ELSE LabelText(l)

\* the labelled texts of the raw segments i.. that are in the set W, in
\* transcript order, with a space between two of them
RECURSIVE LabelledFrom(_, _, _)
LabelledFrom(i, W, first) ==
    IF i > Len(segments) THEN <<>>
    ELSE IF i \notin W THEN LabelledFrom(i + 1, W, first)
    ELSE (IF first THEN <<>> ELSE <<" ">>)
            \o <<"[">> \o LabelOf(i) \o <<"]", " ">> \o segments[i].transcript
            \o LabelledFrom(i + 1, W, FALSE)

\* C29: for every accepted segment, the excerpt is null if and only if no
\* raw transcript segment has start >= the segment's start and end <= the
\* segment's end; otherwise its content is the speaker-labelled text of
\* exactly those raw segments, in transcript order.
C29_ExcerptOfSegmentsWithin ==
    \A n \in 1..Len(allSegments) :
        LET seg == allSegments[n]
        IN IF Within(seg) = {}
           THEN seg.transcriptExcerpt = <<>>
           ELSE /\ Len(seg.transcriptExcerpt) = 1
                /\ seg.transcriptExcerpt[1].content = LabelledFrom(1, Within(seg), TRUE)

\* a segment whose excerpt holds two raw segments, one of them of a speaker
\* without a name, while a third raw segment only overlaps its bounds
C29_Witness ==
    \E n \in 1..Len(allSegments) :
        /\ Cardinality(Within(allSegments[n])) = 2
        /\ \E i \in (1..Len(segments)) \ Within(allSegments[n]) :
              /\ segments[i].start_time < allSegments[n].episodeStartSec
              /\ segments[i].end_time > allSegments[n].episodeStartSec
        /\ \E i, j \in Within(allSegments[n]) : LabelOf(i) # LabelOf(j)
        /\ Len(allSegments[n].transcriptExcerpt) = 1

\* C30: every segment that identifySegments returns, which the handler
\* persists and submits as it is, has lucidity, arousal, subjectivity and
\* humor in 0..5 and polarity in -5..5, whatever the service returned.
C30_MetricsWithinRanges ==
    \A n \in 1..Len(allSegments) :
        /\ allSegments[n].lucidity \in 0..5
        /\ allSegments[n].polarity \in -5..5
        /\ allSegments[n].arousal \in 0..5
        /\ allSegments[n].subjectivity \in 0..5
        /\ allSegments[n].humor \in 0..5

\* the metrics of every returned segment are the ones the answer gave
MetricsCopied ==
    \A n \in 1..Len(allSegments) :
        metricsOf(allSegments[n]) = metricsOf(response[1].segments[n])

-----------------------------------------------------------------------------
(* Two invocations at once, each with one record, for different episodes;  *)
(* their steps interleave in any order                                     *)

MaxTwoEpisodeSegments == 1

InitTwoEpisodes ==
    /\ pc = "handler"
    /\ ChapterPlannerIdle
    /\ ChunkerIdle
    /\ StagesIdle
    /\ inv = [i \in Invocations |-> IF i = "inv1" THEN Invoked(<<"e1">>) ELSE Invoked(<<"e2">>)]
    /\ log = <<>>
    /\ budget = [faults |-> 0, segments |-> MaxTwoEpisodeSegments]

\* the steps of runs in which every call succeeds
NextTwoEpisodes ==
    \E i \in Invocations :
        \/ FetchEpisode(i)
        \/ FetchSeries(i)
        \/ NoAudioMediaId(i)
        \/ FetchTranscript(i)
        \/ IdentifySpeakersNone(i)
        \/ IdentifySpeakers(i)
        \/ UpdateEpisodeSpeakers(i)
        \/ IdentifyChaptersNone(i)
        \/ IdentifyChapters(i)
        \/ UpsertChapter(i)
        \/ IdentifySegmentsInChapter(i)
        \/ UpsertSegment(i)
        \/ GenerateContextualRetrieval(i)
        \/ SendToGraphiti(i)
        \/ UpdateEpisodeComplete(i)

SpecTwoEpisodes == InitTwoEpisodes /\ [][NextTwoEpisodes]_vars

\* the requests of invocation i, in their order
ProjectedLog(i) == SelectSeq(log, LAMBDA r : r.inv = i)

\* the place of an operation in the sequence of main
StageOf(op) ==
    CASE op = "getEpisode" -> 1
      [] op = "getSeries" -> 2
      [] op = "getTranscript" -> 3
      [] op = "llmSpeakers" -> 4
      [] op = "putSpeakers" -> 5
      [] op = "llmChapters" -> 6
      [] op = "putChapter" -> 7
      [] op = "llmSegments" -> 8
      [] op = "putSegment" -> 9
      [] op \in {"llmContext", "submit"} -> 10
      [] op \in {"putComplete", "putFailed"} -> 11

\* the requests of invocation i are those of a run of main on its own: its
\* stages in their order, each chapter and each segment saved once and in
\* order, one final status at the end, whose ids are those of its own
\* submits
RunsAsAlone(i) ==
    LET own == ProjectedLog(i)
    IN /\ \A n \in 2..Len(own) :
            /\ StageOf(own[n - 1].op) <= StageOf(own[n].op)
            /\ own[n - 1].op \notin {"putComplete", "putFailed"}
            /\ (own[n].op = own[n - 1].op /\ own[n].op \in {"putChapter", "putSegment"})
                  => own[n].id = own[n - 1].id + 1
       /\ \A n \in 1..Len(own) :
            (own[n].op \in {"putChapter", "putSegment"}
                /\ (n = 1 \/ own[n - 1].op # own[n].op)) => own[n].id = 1
       /\ \A n \in 1..Len(log) :
            (log[n].inv = i /\ log[n].op = "putComplete") =>
                Range(log[n].ids) = SubmittedBefore(n)

\* every request of an invocation carries the episode id of the record
\* that the invocation is processing, which is not the other's
OwnEpisodeOnly ==
    /\ \A n \in 1..Len(log) :
          log[n].ep = inv[log[n].inv].records[log[n].rec]
    /\ \A i, j \in Invocations :
          i # j => Range(inv[i].records) \cap Range(inv[j].records) = {}

\* a step is the step of one invocation: the request it adds is that
\* invocation's, and the locals of the other invocation stay as they are
StepOfOne ==
    \A i \in Invocations :
        inv[i]' # inv[i] =>
            /\ \A j \in Invocations \ {i} : inv[j]' = inv[j]
            /\ Len(log') > Len(log) => log'[Len(log')].inv = i

-----------------------------------------------------------------------------
(* What the chapter repair changes (SpecChapters) *)

\* proposals a and b, by their places in the answer: a comes before b once
\* the list is sorted by start (the sort keeps the order of equal starts)
SortsBefore(a, b) ==
    \/ response.chapters[a].start_sec < response.chapters[b].start_sec
    \/ /\ response.chapters[a].start_sec = response.chapters[b].start_sec
       /\ a < b

Proposals == 1..Len(response.chapters)

\* the proposals that the sort puts before proposal b
SortedBefore(b) == {a \in Proposals : SortsBefore(a, b)}

\* the proposal that the sort puts right before proposal b
PreviousOf(b) ==
    CHOOSE a \in SortedBefore(b) :
        \A c \in SortedBefore(b) : c = a \/ SortsBefore(c, a)

SortsLast(b) == \A a \in Proposals : a = b \/ SortsBefore(a, b)

\* a returned chapter other than the first of the sorted list starts at the
\* proposed end of the chapter before it
StartsAtPreviousEnd ==
    \A n \in 1..Len(chapters) :
        SortedBefore(chapters[n].id) # {} =>
            chapters[n].episodeStartSec
                = response.chapters[PreviousOf(chapters[n].id)].end_sec

\* every returned chapter but the last of the sorted list keeps its
\* proposed end
EndsKept ==
    \A n \in 1..Len(chapters) :
        ~SortsLast(chapters[n].id) =>
            chapters[n].episodeEndSec = response.chapters[chapters[n].id].end_sec

\* the repair of the proposal [0,50], [40,100], [150,200] for 200 s
RepairExample ==
    validateAndFixChapters(
        ToChapters(<<[type |-> "section", start_sec |-> 0, end_sec |-> 50],
                     [type |-> "section", start_sec |-> 40, end_sec |-> 100],
                     [type |-> "section", start_sec |-> 150, end_sec |-> 200]>>), 200)
      = <<[id |-> 1, type |-> "section", episodeStartSec |-> 0, episodeEndSec |-> 50],
          [id |-> 2, type |-> "section", episodeStartSec |-> 50, episodeEndSec |-> 100],
          [id |-> 3, type |-> "section", episodeStartSec |-> 100, episodeEndSec |-> 200]>>

\* the repair moves starts and leaves every end as proposed, but for the
\* end of the last chapter, which is raised to the duration when it is
\* smaller
RepairKeepsEnds ==
    /\ RepairExample
    /\ Repaired =>
          /\ StartsAtPreviousEnd
          /\ EndsKept
          /\ \A n \in 1..Len(chapters) :
                SortsLast(chapters[n].id) =>
                    chapters[n].episodeEndSec
                        = Max(episodeDuration(segments),
                              response.chapters[chapters[n].id].end_sec)

\* C32: the repair moves only start times: after the sort by proposed
\* start every chapter from the second on starts at the end of the chapter
\* before it, every chapter keeps its proposed end except the last one,
\* whose end is the episode duration; [0,50], [40,100], [150,200] for 200 s
\* becomes [0,50], [50,100], [100,200].
C32_RepairMovesOnlyStarts ==
    /\ RepairExample
    /\ Repaired =>
          /\ StartsAtPreviousEnd
          /\ EndsKept
          /\ \A n \in 1..Len(chapters) :
                SortsLast(chapters[n].id) =>
                    chapters[n].episodeEndSec = episodeDuration(segments)

-----------------------------------------------------------------------------
(* The context of a segment's document (SpecServiceFaults) *)

\* invocation i has the document of a segment in hand: the context call is
\* over and the chunks are about to be sent
DocumentBuilt(i) == inv[i].pc = "sendToGraphiti"

\* when the context call threw, the context is the templated sentence, and
\* the document is chunked and sent all the same
ThrownContextTemplated ==
    \A i \in Invocations :
        (DocumentBuilt(i) /\ ~log[Len(log)].ok /\ log[Len(log)].op = "llmContext") =>
            /\ inv[i].context = "template"
            /\ Len(inv[i].dataChunks) >= 1

\* C33: whenever the context call for a segment yields no description (it
\* fails, times out or returns empty content), the context placed in the
\* document of the segment is the templated sentence, and the segment is
\* still chunked and submitted: the context of a document is a generated
\* description or the templated sentence.
C33_ContextFallback ==
    \A i \in Invocations :
        DocumentBuilt(i) =>
            /\ inv[i].context \in {"generated", "template"}
            /\ Len(inv[i].dataChunks) >= 1

-----------------------------------------------------------------------------
(* identify-chapters.ts: the number of chapters asked for *)

MaxTargetHalfMinutes == 140

\* the target with Math.floor in the place of Math.round
targetChaptersFloored(segs) == Max(5, Min(15, episodeDuration(segs) \div 240))

\* Math.max(5, Math.min(15, Math.round(durationMinutes / 4)))
targetChapters(segs) == Max(5, Min(15, Round(episodeDuration(segs), 240)))

\* durations up to 70 minutes, on the half minute and a second before it
ChapterTargetDurations == {30 * m - e : m \in 1..MaxTargetHalfMinutes, e \in {0, 1}}

InitChapterTargets ==
    /\ pc = "identifyChapters"
    /\ \E d \in ChapterTargetDurations : segments \in TranscriptsOf(d)
    /\ response = NoResponse
    /\ chapters = <<>>
    /\ ChunkerIdle
    /\ HandlerIdle
    /\ StagesIdle

\* identifyChapters up to the request: targetChapters
ChapterTargetComputed ==
    /\ pc = "identifyChapters"
    /\ targets' = <<targetChapters(segments)>>
    /\ pc' = "chaptersRequested"
    /\ UNCHANGED <<chapterVars, chunkVars, handlerVars, speakerData, allSegments, blocks>>

NextChapterTargets == ChapterTargetComputed

SpecChapterTargets == InitChapterTargets /\ [][NextChapterTargets]_vars

\* n is d / 240 rounded to the nearest integer, halves upwards
NearestToQuarter(n, d) == 480 * n - 240 <= 2 * d /\ 2 * d < 480 * n + 240

\* C34: for a non-empty transcript the number of chapters asked for is
\* round(durationMinutes / 4) kept within 5..15, the duration being the
\* largest end time of the segments; it is between 5 and 15 and is not
\* smaller than the number for any shorter transcript.
C34_ChapterTarget ==
    pc = "chaptersRequested" =>
        LET d == MaxOfSet({segments[n].end_time : n \in 1..Len(segments)})
        IN /\ targets[1] \in 5..15
           /\ \E n \in 0..(d \div 240 + 1) :
                /\ NearestToQuarter(n, d)
                /\ targets[1] = IF n < 5 THEN 5 ELSE IF n > 15 THEN 15 ELSE n
           /\ \A e \in ChapterTargetDurations :
                e <= d => \A t \in TranscriptsOf(e) : targetChapters(t) <= targets[1]

\* 22 minutes are 5.5 quarters: six chapters are asked for
C34_Witness ==
    /\ pc = "chaptersRequested"
    /\ episodeDuration(segments) = 1320
    /\ Len(segments) = 2
    /\ targets = <<6>>

-----------------------------------------------------------------------------
(* fetch-rss/handler.ts: the episodes of a refreshed feed.  Here inv is the *)
(* one refresh (its feed and the locals of its item loop), log the requests *)
(* it issued and budget.episodes what the API stores for each guid.         *)

MaxFeedItems == 2

Guids == {"g1", "g2"}

\* what the API holds for a guid: no episode, an episode whose
\* processingStatus is missing, or an episode with a status
NotStored == "notStored"
StatusMissing == "missing"
StoredStatuses == {NotStored, StatusMissing, "pending", "transcribing"}

\* the body of the request carries no processingStatus
NotWritten == "notWritten"

\* item.enclosure?.url: absent, empty or an address
EnclosureUrls == {<<>>, <<"">>, <<"u">>}

\* a feed item: its guid, its enclosure address and whether its pubDate is
\* before the cutoff date of the series
FeedItems == [guid : Guids, enclosureUrl : EnclosureUrls, old : BOOLEAN]

Feeds == UNION {[1..n -> FeedItems] : n \in 1..MaxFeedItems}

\* JavaScript truthiness of an optional string
Truthy(s) == s # <<>> /\ s[1] # ""

RssRequest(op, item, guid, status, stored) ==
    [op |-> op, item |-> item, guid |-> guid, status |-> status, stored |-> stored]

InitRefresh ==
    /\ pc = "nextItem"
    /\ \E f \in Feeds :
         inv = [items |-> f, item |-> 1, seen |-> <<>>, episodeId |-> "",
                created |-> FALSE, processingStatus |-> "pending"]
    /\ log = <<>>
    /\ budget \in [episodes : [Guids -> StoredStatuses]]
    /\ ChapterPlannerIdle
    /\ ChunkerIdle
    /\ StagesIdle

\* enclosure?.url && (created || processingStatus === "pending")
shouldEnqueueAudio(item, created, processingStatus) ==
    Truthy(item.enclosureUrl) /\ (created \/ processingStatus = "pending")

\* pubDate && pubDate < cutoffDate: continue
SkipOlderThanCutoff ==
    /\ pc = "nextItem"
    /\ inv.item <= Len(inv.items)
    /\ inv.items[inv.item].old
    /\ inv' = [inv EXCEPT !.item = inv.item + 1,
                          !.seen = Append(inv.seen, budget.episodes[inv.items[inv.item].guid])]
    /\ UNCHANGED <<pc, log, budget, chapterVars, chunkVars, stageVars>>

\* upsertEpisode: the search by guid answers
SearchEpisode ==
    /\ pc = "nextItem"
    /\ inv.item <= Len(inv.items)
    /\ ~inv.items[inv.item].old
    /\ LET guid == inv.items[inv.item].guid
           stored == budget.episodes[guid]
       IN /\ log' = Append(log, RssRequest("searchEpisode", inv.item, guid, NotWritten, stored))
          /\ IF stored # NotStored
             THEN /\ inv' = [inv EXCEPT !.seen = Append(inv.seen, stored),
                                        !.episodeId = guid,
                                        !.created = FALSE,
                                        !.processingStatus =
                                            IF stored = StatusMissing THEN "pending" ELSE stored]
                  /\ pc' = "updateEpisode"
             ELSE /\ inv' = [inv EXCEPT !.seen = Append(inv.seen, stored),
                                        !.created = FALSE,
                                        !.processingStatus = "pending"]
                  /\ pc' = "createEpisode"
    /\ UNCHANGED <<budget, chapterVars, chunkVars, stageVars>>

\* upsertEpisode: the search is refused, the refresh throws
SearchEpisodeFails ==
    /\ pc = "nextItem"
    /\ inv.item <= Len(inv.items)
    /\ ~inv.items[inv.item].old
    /\ LET guid == inv.items[inv.item].guid
       IN /\ log' = Append(log, RssRequest("searchEpisode", inv.item, guid, NotWritten,
                                           budget.episodes[guid]))
          /\ inv' = [inv EXCEPT !.seen = Append(inv.seen, budget.episodes[guid])]
    /\ pc' = "thrown"
    /\ UNCHANGED <<budget, chapterVars, chunkVars, stageVars>>

\* upsertEpisode: PUT of the metadata of the episode found
UpdateEpisode ==
    /\ pc = "updateEpisode"
    /\ log' = Append(log, RssRequest("updateEpisode", inv.item, inv.episodeId, NotWritten,
                                     budget.episodes[inv.episodeId]))
    /\ pc' = "enqueue"
    /\ UNCHANGED <<inv, budget, chapterVars, chunkVars, stageVars>>

\* upsertEpisode: POST of a new episode with processingStatus pending
CreateEpisode ==
    /\ pc = "createEpisode"
    /\ LET guid == inv.items[inv.item].guid
       IN /\ log' = Append(log, RssRequest("createEpisode", inv.item, guid, "pending",
                                           budget.episodes[guid]))
          /\ budget' = [budget EXCEPT !.episodes[guid] = "pending"]
          /\ inv' = [inv EXCEPT !.episodeId = guid,
                                !.created = TRUE,
                                !.processingStatus = "pending"]
    /\ pc' = "enqueue"
    /\ UNCHANGED <<chapterVars, chunkVars, stageVars>>

\* upsertEpisode: the POST is refused, result.data.id throws
CreateEpisodeFails ==
    /\ pc = "createEpisode"
    /\ LET guid == inv.items[inv.item].guid
       IN log' = Append(log, RssRequest("createEpisode", inv.item, guid, "pending",
                                        budget.episodes[guid]))
    /\ pc' = "thrown"
    /\ UNCHANGED <<inv, budget, chapterVars, chunkVars, stageVars>>

\* main: shouldEnqueueAudio holds, the episode is sent to the download queue
EnqueueAudioDownload ==
    /\ pc = "enqueue"
    /\ shouldEnqueueAudio(inv.items[inv.item], inv.created, inv.processingStatus)
    /\ log' = Append(log, RssRequest("enqueueAudioDownload", inv.item, inv.episodeId,
                                     NotWritten, budget.episodes[inv.episodeId]))
    /\ inv' = [inv EXCEPT !.item = inv.item + 1]
    /\ pc' = "nextItem"
    /\ UNCHANGED <<budget, chapterVars, chunkVars, stageVars>>

\* main: shouldEnqueueAudio does not hold
NoAudioDownload ==
    /\ pc = "enqueue"
    /\ ~shouldEnqueueAudio(inv.items[inv.item], inv.created, inv.processingStatus)
    /\ inv' = [inv EXCEPT !.item = inv.item + 1]
    /\ pc' = "nextItem"
    /\ UNCHANGED <<log, budget, chapterVars, chunkVars, stageVars>>

\* main: the items of the feed are done
RefreshReturns ==
    /\ pc = "nextItem"
    /\ inv.item > Len(inv.items)
    /\ pc' = "returned"
    /\ UNCHANGED <<handlerVars, chapterVars, chunkVars, stageVars>>

\* the pipeline, meanwhile: start-transcribe moves an episode to transcribing
EpisodeStartsTranscribing ==
    /\ pc \notin {"returned", "thrown"}
    /\ \E guid \in Guids :
         /\ budget.episodes[guid] \in {StatusMissing, "pending"}
         /\ budget' = [budget EXCEPT !.episodes[guid] = "transcribing"]
    /\ UNCHANGED <<pc, inv, log, chapterVars, chunkVars, stageVars>>

NextRefresh ==
    \/ SkipOlderThanCutoff
    \/ SearchEpisode
    \/ SearchEpisodeFails
    \/ UpdateEpisode
    \/ CreateEpisode
    \/ CreateEpisodeFails
    \/ EnqueueAudioDownload
    \/ NoAudioDownload
    \/ RefreshReturns
    \/ EpisodeStartsTranscribing

SpecRefresh == InitRefresh /\ [][NextRefresh]_vars

\* the refresh is through with item j
ItemDone(j) == j \in 1..Len(inv.items) /\ j < inv.item

RequestedFor(op, j) == \E k \in 1..Len(log) : log[k].op = op /\ log[k].item = j

\* no request of the refresh for an episode that exists carries a status
RefreshKeepsStatus ==
    \A k \in 1..Len(log) :
        /\ log[k].op = "updateEpisode" => log[k].status = NotWritten
        /\ log[k].op = "createEpisode" => log[k].stored = NotStored

\* what the code decides: an address that is not empty, and the episode
\* created by this item or found with status pending or with no status
EnqueuedAsDecided ==
    \A j \in 1..Len(inv.items) :
        ItemDone(j) =>
            (RequestedFor("enqueueAudioDownload", j) <=>
                /\ ~inv.items[j].old
                /\ Truthy(inv.items[j].enclosureUrl)
                /\ \/ RequestedFor("createEpisode", j)
                   \/ inv.seen[j] \in {StatusMissing, "pending"})

\* an item not older than the cutoff is enqueued exactly when it has an
\* enclosure URL and its episode was created by it or found pending
EnqueuedWhenPending ==
    \A j \in 1..Len(inv.items) :
        (ItemDone(j) /\ ~inv.items[j].old) =>
            (RequestedFor("enqueueAudioDownload", j) <=>
                /\ Truthy(inv.items[j].enclosureUrl)
                /\ \/ RequestedFor("createEpisode", j)
                   \/ inv.seen[j] = "pending")

\* no episode is sent to the download queue while its status is past pending
PastPendingNotEnqueued ==
    \A k \in 1..Len(log) :
        log[k].op = "enqueueAudioDownload" => log[k].stored # "transcribing"

\* C35: a refresh writes no processingStatus to an episode that exists; an
\* item is enqueued for audio download exactly when it has an enclosure
\* URL and its episode was created by this refresh or is stored with
\* status pending; an episode whose status is past pending is not enqueued.
C35_RefreshEnqueuesPendingOnly ==
    /\ RefreshKeepsStatus
    /\ EnqueuedWhenPending
    /\ PastPendingNotEnqueued

-----------------------------------------------------------------------------
(* ingest-to-graphiti.ts: chunkData ends *)

MaxEndingTextLen == 8

InitChunkEnds ==
    /\ pc = "chunkData"
    /\ \E n \in 0..MaxEndingTextLen : data \in TextsOfLen(n)
    /\ remaining = <<>>
    /\ chunks = <<>>
    /\ base = 0
    /\ spans = <<>>
    /\ cuts = <<>>
    /\ ChapterPlannerIdle
    /\ HandlerIdle
    /\ StagesIdle

\* the function runs on: a step that can be taken is taken
SpecChunkEnds == InitChunkEnds /\ [][NextChunk]_vars /\ WF_vars(NextChunk)

\* an iteration that cuts leaves less of the text than it found
CutShortensRemaining ==
    [][ChunkCut => Len(remaining') < Len(remaining)]_vars

\* the iterations so far: one per chunk pushed in the loop
IterationsWithinLength ==
    Len(data) > MAX_DATA_CHARS => Len(chunks) <= Len(data)

\* C36: chunkData ends for every text: an iteration of its loop that does
\* not leave the loop removes at least one character from the remaining
\* text, the loop makes at most length(text) iterations, and the function
\* returns.
C36_ChunkDataTerminates ==
    /\ CutShortensRemaining
    /\ []IterationsWithinLength
    /\ <>(pc = "chunked")

\* a text cut at a space, then the rest: two iterations, and the function
\* has returned
C36_Witness ==
    /\ pc = "chunked"
    /\ Len(data) = MaxEndingTextLen
    /\ Len(cuts) = 1
    /\ Len(chunks) = 2
    /\ \E k \in 1..Len(cuts) : Len(chunks[k]) < MAX_DATA_CHARS

-----------------------------------------------------------------------------
(* identify-chapters.ts: what is left after the repair *)

\* when the call failed or proposed nothing, the defaults are returned
FallbackGivesChapters ==
    (Returned /\ Len(segments) >= 1 /\ (response.kind # "chapters" \/ Len(response.chapters) = 0)) =>
        Len(chapters) >= 1

\* C37: for a non-empty transcript and any response of the generation
\* service, identifyChapters returns at least one chapter.
C37_AtLeastOneChapter ==
    (Returned /\ Len(segments) >= 1) => Len(chapters) >= 1

-----------------------------------------------------------------------------
(* handler.ts: an event of two records *)

MaxRecordSegments == 2

\* one invocation with two records, the episode with audio first or second;
\* one call may fail
InitRecords ==
    /\ pc = "handler"
    /\ ChapterPlannerIdle
    /\ ChunkerIdle
    /\ StagesIdle
    /\ \E recs \in {<<"e1", "e2">>, <<"e2", "e1">>} :
        inv = [i \in Invocations |-> IF i = "inv1" THEN Invoked(recs) ELSE NotInvoked]
    /\ log = <<>>
    /\ budget = [faults |-> 1, segments |-> MaxRecordSegments]

SpecRecords == InitRecords /\ [][Next]_vars

\* the requests of an invocation follow the order of its records
RecordsInOrder ==
    \A k, l \in 1..Len(log) :
        (k < l /\ log[k].inv = log[l].inv) => log[k].rec <= log[l].rec

\* with an exception caught or thrown at record k, nothing was asked for a
\* later record
NothingBeyondFailure ==
    \A i \in Invocations :
        inv[i].pc \in {"catch", "thrown"} =>
            /\ inv[i].rec <= Len(inv[i].records)
            /\ \A k \in 1..Len(log) : log[k].inv = i => log[k].rec <= inv[i].rec

\* the catch ends the invocation at its record, and an ended invocation
\* asks nothing more
EndsAtFailure ==
    \A i \in Invocations :
        /\ (inv[i].pc = "catch" /\ inv'[i] # inv[i]) =>
              (inv'[i].pc = "thrown" /\ inv'[i].rec = inv[i].rec)
        /\ inv[i].pc = "thrown" => (inv'[i] = inv[i] /\ log' = log)

\* C38: the records of one invocation are processed in order, one after the
\* other; when the processing of record k raises a fatal error the
\* invocation ends there: no later record is processed and nothing is read
\* or written for a later record's episode.
C38_RecordsInOrderUntilFatal ==
    /\ [](RecordsInOrder /\ NothingBeyondFailure)
    /\ [][EndsAtFailure]_vars

\* the first of two records failed after its transcript was read: failed is
\* written for it and nothing is asked for the second
C38_Witness ==
    /\ inv["inv1"].pc = "thrown"
    /\ inv["inv1"].records = <<"e1", "e2">>
    /\ inv["inv1"].rec = 1
    /\ Len(log) >= 4
    /\ log[Len(log)].op = "putFailed"
    /\ \A k \in 1..Len(log) : log[k].ep = "e1"

\* the record without audio is passed over and the next one is processed
C38_SecondProcessed ==
    /\ inv["inv1"].pc = "returned"
    /\ inv["inv1"].records = <<"e2", "e1">>
    /\ \E k \in 1..Len(log) : log[k].ep = "e1" /\ log[k].op = "putComplete"

-----------------------------------------------------------------------------
(* handler.ts: the write of the status complete *)

\* the requests of record r of invocation i: one run of the pipeline
RunRequests(i, r) == {n \in 1..Len(log) : log[n].inv = i /\ log[n].rec = r}

\* a run writes complete at most once
CompleteWrittenOnce ==
    \A i \in Invocations : \A r \in 1..2 :
        Cardinality({n \in RunRequests(i, r) : log[n].op = "putComplete"}) <= 1

\* after a complete write that succeeded the run issues nothing
NothingAfterComplete ==
    \A i \in Invocations : \A r \in 1..2 :
        \A n, m \in RunRequests(i, r) :
            (log[n].op = "putComplete" /\ log[n].ok) => m <= n

\* the step that writes complete finds every identified segment saved and,
\* for every segment that is not filtered out, a context call made
CompleteAfterSegments ==
    \A i \in Invocations :
        (/\ Len(log') = Len(log) + 1
         /\ log'[Len(log')].op = "putComplete"
         /\ log'[Len(log')].inv = i) =>
            LET L == inv[i]
                run == RunRequests(i, L.rec)
            IN /\ \A s \in Range(L.identifiedSegments) :
                    \E n \in run :
                        log[n].op = "putSegment" /\ log[n].id = s.id /\ log[n].ok
               /\ \A s \in Range(segmentsToIngest(L.identifiedSegments)) :
                    \E n \in run : log[n].op = "llmContext" /\ log[n].id = s.id

\* C39: in one run for an episode the status complete is written at most
\* once, only after every segment was saved and the ingestion of every
\* segment that is not filtered out was attempted; after a complete write
\* that succeeded the run issues no further write for the episode.
C39_CompleteOnceAndLast ==
    /\ [](CompleteWrittenOnce /\ NothingAfterComplete)
    /\ [][CompleteAfterSegments]_vars

\* two segments saved, the submission of one failed, complete written last
C39_Witness ==
    /\ inv["inv1"].pc = "returned"
    /\ inv["inv1"].records = <<"e2", "e1">>
    /\ log[Len(log)].op = "putComplete"
    /\ log[Len(log)].ok
    /\ Cardinality({n \in RunRequests("inv1", 2) : log[n].op = "putSegment"}) = 2
    /\ \E n \in RunRequests("inv1", 2) : log[n].op = "submit" /\ ~log[n].ok

====
